---- MODULE Spec2Model ----
(***************************************************************************)
(* Model of the PostgreSQL MCP adapter: the file-application engine        *)
(* (FileService), the combined tool (PostgreSQLTool), the remote client    *)
(* (McpService) and the RPC tool-call handler (PostgreSQLMCPServer).       *)
(*                                                                         *)
(* Strings are modelled as sequences of tokens.  A path is a sequence of   *)
(* separator tokens "/" and name tokens ("src", "..", "User.java"); file   *)
(* content is a sequence of text tokens.  Facts about the characters       *)
(* inside one token (prefix, case, underscore, extension) are tabulated    *)
(* for the finite vocabulary the model uses.                               *)
(***************************************************************************)
EXTENDS Naturals, Sequences, FiniteSets, TLC

VARIABLES
    projectRoot,                \* FileService.projectRoot (<<>> = null)
    removeProjectNameFromPath,  \* FileService.removeProjectNameFromPath
    autoBackup,                 \* config.autoBackup
    files,                      \* file system: full path -> content
    dirs,                       \* file system: existing directories
    backups,                    \* file system: backup files, key -> content
    now,                        \* the clock read by new Date()
    pc,                         \* position inside applyGeneratedFiles
    filesApplied,               \* local of applyGeneratedFiles
    appliedFilesList,           \* local of applyGeneratedFiles
    errors,                     \* local of applyGeneratedFiles
    applyResult,                \* what the last applyGeneratedFiles call gave
    last,                       \* record of the descriptor processed last
    nDesc,                      \* descriptors taken from the batch so far
    nDoomed,                    \* of those: unwritable or escaping ones
    allValid,                   \* all so far had content and a known action
    total,                      \* descriptors processed since the start
    proc,                       \* the adapter process: running or exited
    call,                       \* the tool invocation in flight, or the last one
    probe,                      \* the last checkIntegrationStatus call and its result
    peer,                       \* a second invocation of the combined tool in flight
    remote,                     \* McpService: currentRequestId and its last call
    batch,                      \* generatedFiles of the applyGeneratedFiles call
    boot,                       \* index.js: the environment and how far main() got
    fix,                        \* the last package-path correction: input and output
    mergeCall                   \* the last mergeFileContent call: arguments and result

(***************************************************************************)
(* Bounds of the model.                                                    *)
(***************************************************************************)
MaxFiles == 2
MaxClock == 1
\* tokens in the prefix content.slice(0, 1000) keeps of a source file
SliceLen == 2
\* files present in a probed project tree
MaxTreeFiles == 2
\* invocations of the combined tool that run beside another one
MaxPeerCalls == 1
\* categories in one batch of generated files
MaxCategories == 2

(***************************************************************************)
(* Strings: the token vocabulary and its character-level facts.            *)
(***************************************************************************)
SL == "/"

\* a is a string prefix of b, for the name tokens of the model
StrPrefix(a, b) ==
    \/ a = b
    \/ <<a, b>> \in { <<"proj", "proj-evil">>, <<".", "..">>,
                      <<".", ".mcp-backups">> }

\* String.prototype.includes('_') on a name token
HasUnderscore(n) == n \in {"test_service", "my_app", "My_App"}

\* n === n.toLowerCase() on a name token
IsLowerCase(n) ==
    n \notin {"User.java", "User.JAVA", "UserRepository.java",
              "UserController.java", "Shared", "My_App", "README.md"}

\* String.prototype.endsWith('.java') on a path: decided by its last token
EndsWithJava(p) ==
    Len(p) > 0 /\ p[Len(p)] \in {"User.java", "UserRepository.java",
                                 "UserController.java"}

\* String.prototype.startsWith on token strings
StartsWith(s, prefix) ==
    \/ prefix = <<>>
    \/ /\ Len(prefix) <= Len(s)
       /\ \A i \in 1..(Len(prefix) - 1) : s[i] = prefix[i]
       /\ IF prefix[Len(prefix)] = SL \/ s[Len(prefix)] = SL
          THEN s[Len(prefix)] = prefix[Len(prefix)]
          ELSE StrPrefix(prefix[Len(prefix)], s[Len(prefix)])

(***************************************************************************)
(* Node's path module.                                                     *)
(***************************************************************************)
\* process.cwd(): the adapter is started inside the project
Cwd == <<SL, "proj">>

IsAbsolute(p) == Len(p) > 0 /\ p[1] = SL

IsName(t) == t # SL

Segments(p) == SelectSeq(p, IsName)

RECURSIVE NormSegs(_, _, _)
NormSegs(segs, acc, abs) ==
    IF segs = <<>> THEN acc
    ELSE LET s == Head(segs)
             rest == Tail(segs)
         IN IF s = "." THEN NormSegs(rest, acc, abs)
            ELSE IF s = ".."
                 THEN IF acc # <<>> /\ acc[Len(acc)] # ".."
                      THEN NormSegs(rest, SubSeq(acc, 1, Len(acc) - 1), abs)
                      ELSE IF abs THEN NormSegs(rest, acc, abs)
                           ELSE NormSegs(rest, Append(acc, ".."), abs)
                 ELSE NormSegs(rest, Append(acc, s), abs)

RECURSIVE JoinSegs(_)
JoinSegs(segs) ==
    IF segs = <<>> THEN <<>>
    ELSE IF Len(segs) = 1 THEN <<segs[1]>>
    ELSE <<segs[1], SL>> \o JoinSegs(Tail(segs))

\* path.normalize
Normalize(p) ==
    LET abs == IsAbsolute(p)
        trailing == Len(p) > 1 /\ p[Len(p)] = SL
        body == JoinSegs(NormSegs(Segments(p), <<>>, abs))
    IN IF p = <<>> THEN <<".">>
       ELSE IF body = <<>>
            THEN (IF abs THEN <<SL>> ELSE IF trailing THEN <<".", SL>> ELSE <<".">>)
            ELSE (IF abs THEN <<SL>> ELSE <<>>) \o body
                 \o (IF trailing THEN <<SL>> ELSE <<>>)

\* path.resolve(a, b): an absolute, normalized path without trailing slash
Resolve(a, b) ==
    LET chain == IF IsAbsolute(b) THEN b
                 ELSE IF IsAbsolute(a) THEN a \o <<SL>> \o b
                 ELSE Cwd \o <<SL>> \o a \o <<SL>> \o b
    IN <<SL>> \o JoinSegs(NormSegs(Segments(chain), <<>>, TRUE))

\* path.join(a, b)
Join(a, b) ==
    IF a = <<>> THEN Normalize(b)
    ELSE IF b = <<>> THEN Normalize(a)
    ELSE Normalize(a \o <<SL>> \o b)

\* path.dirname
Dirname(p) ==
    LET segs == Segments(p)
    IN IF Len(segs) <= 1
       THEN (IF IsAbsolute(p) THEN <<SL>> ELSE <<".">>)
       ELSE (IF IsAbsolute(p) THEN <<SL>> ELSE <<>>)
            \o JoinSegs(SubSeq(segs, 1, Len(segs) - 1))

\* path.basename
Basename(p) ==
    LET segs == Segments(p)
    IN IF segs = <<>> THEN "" ELSE segs[Len(segs)]

\* path.extname(...).toLowerCase()
Extname(p) ==
    LET b == Basename(p)
    IN CASE b \in {"User.java", "User.JAVA"} -> ".java"
         [] b \in {"pom.xml", "beans.xml"} -> ".xml"
         [] b \in {"application.properties"} -> ".properties"
         [] b \in {"application.yml"} -> ".yml"
         [] b \in {"application.yaml"} -> ".yaml"
         [] b \in {"x.txt", "README.md"} -> ".other"
         [] OTHER -> ""

\* the directories fs.mkdir(dir, {recursive: true}) makes sure exist
RECURSIVE Ancestors(_)
Ancestors(d) ==
    IF Len(Segments(d)) = 0 THEN {}
    ELSE {d} \cup Ancestors(Dirname(d))

\* p lies inside directory root (root itself or below it)
Inside(p, root) ==
    /\ IsAbsolute(root)
    /\ Segments(root) # <<>>
    /\ Len(Segments(p)) >= Len(Segments(root))
    /\ SubSeq(Segments(p), 1, Len(Segments(root))) = Segments(root)

(***************************************************************************)
(* File content: text tokens.                                              *)
(***************************************************************************)
NL == "\n"
Indent == "    "

IsImportStmt(t) == t \in {"import a;", "import b;", "import static c;"}
IsPackageDecl(t) == t \in {"package p;"}
IsMethodBlock(t) == t \in {"public void m() {}", "private int n() {}"}
IsWhitespace(t) == t \in {NL, Indent}
IsMarker(t) == t \in {"@RestController", "@Service"}
IsDependencyBlock(t) == t \in {"<dependency>jpa</dependency>",
                               "<dependency>pg</dependency>",
                               "<dependency>old</dependency>"}

Range(seq) == {seq[i] : i \in DOMAIN seq}

RECURSIVE Unique(_, _)
Unique(seq, acc) ==
    IF seq = <<>> THEN acc
    ELSE IF Head(seq) \in Range(acc) THEN Unique(Tail(seq), acc)
         ELSE Unique(Tail(seq), Append(acc, Head(seq)))

RECURSIVE JoinWith(_, _)
JoinWith(parts, sep) ==
    IF parts = <<>> THEN <<>>
    ELSE IF Len(parts) = 1 THEN parts[1]
    ELSE parts[1] \o sep \o JoinWith(Tail(parts), sep)

\* [x] for every element x of seq
Singletons(seq) == [i \in DOMAIN seq |-> <<seq[i]>>]

extractJavaImports(content) == SelectSeq(content, IsImportStmt)

extractJavaMethods(content) ==
    LET ms == SelectSeq(content, IsMethodBlock)
    IN [i \in DOMAIN ms |-> <<Indent, ms[i]>>]

\* content.replace(/\nimport\s+(?:static\s+)?[^;]+;/g, '')
RECURSIVE StripImports(_)
StripImports(content) ==
    IF content = <<>> THEN <<>>
    ELSE IF Len(content) >= 2 /\ content[1] = NL /\ IsImportStmt(content[2])
         THEN StripImports(SubSeq(content, 3, Len(content)))
         ELSE <<Head(content)>> \o StripImports(Tail(content))

updateJavaImports(content, imports) ==
    LET pk == {i \in DOMAIN content : IsPackageDecl(content[i])}
    IN IF pk = {} THEN content
       ELSE LET packageEnd == CHOOSE i \in pk : \A j \in pk : i <= j
                withoutImports == StripImports(content)
                importSection ==
                    IF imports # <<>>
                    THEN <<NL, NL>> \o JoinWith(Singletons(imports), <<NL>>)
                    ELSE <<>>
                cut == IF packageEnd <= Len(withoutImports)
                       THEN packageEnd ELSE Len(withoutImports)
            IN SubSeq(withoutImports, 1, cut) \o importSection
               \o SubSeq(withoutImports, cut + 1, Len(withoutImports))

\* existingContent.match(/^([\s\S]*?)(}\s*)$/): index of the closing brace, 0 if none
ClassMatch(content) ==
    LET solid == {i \in DOMAIN content : ~IsWhitespace(content[i])}
    IN IF solid = {} THEN 0
       ELSE LET k == CHOOSE i \in solid : \A j \in solid : j <= i
            IN IF content[k] = "}" THEN k ELSE 0

mergeJavaFile(existingContent, newContent) ==
    LET allImports == Unique(extractJavaImports(existingContent)
                             \o extractJavaImports(newContent), <<>>)
        k == ClassMatch(existingContent)
        newMethods == extractJavaMethods(newContent)
        merged == SubSeq(existingContent, 1, k - 1)
                  \o (IF newMethods # <<>>
                      THEN <<NL, NL, Indent, "// Added by MCP integration", NL>>
                           \o JoinWith(newMethods, <<NL, NL>>)
                      ELSE <<>>)
                  \o SubSeq(existingContent, k, Len(existingContent))
    IN IF (\E i \in DOMAIN existingContent : IsMarker(existingContent[i])) /\ k > 0
       THEN updateJavaImports(merged, allImports)
       ELSE existingContent
            \o <<NL, NL, "// === Added by MCP Integration ===", NL>> \o newContent

mergeXmlFile(existingContent, newContent) ==
    existingContent \o <<NL, NL, "<!-- Added by MCP Integration -->", NL>> \o newContent

\* a manifest merge that puts the new blocks at the head of the section
mergePomXmlAtHead(existingContent, newContent) ==
    LET opens == {i \in DOMAIN existingContent : existingContent[i] = "<dependencies>"}
        newDeps == SelectSeq(newContent, IsDependencyBlock)
    IN IF newDeps # <<>> /\ opens # {}
       THEN LET o == CHOOSE i \in opens : \A j \in opens : i <= j
            IN SubSeq(existingContent, 1, o)
               \o <<NL>> \o JoinWith(Singletons(newDeps), <<NL>>) \o <<NL, Indent>>
               \o SubSeq(existingContent, o + 1, Len(existingContent))
       ELSE mergeXmlFile(existingContent, newContent)

mergePomXml(existingContent, newContent) ==
    LET opens == {i \in DOMAIN existingContent : existingContent[i] = "<dependencies>"}
        closes(o) == {j \in DOMAIN existingContent :
                          j > o /\ existingContent[j] = "</dependencies>"}
        matches == {o \in opens : closes(o) # {}}
        newDeps == SelectSeq(newContent, IsDependencyBlock)
    IN IF newDeps # <<>> /\ matches # {}
       THEN LET o == CHOOSE i \in matches : \A j \in matches : i <= j
                c == CHOOSE i \in closes(o) : \A j \in closes(o) : i <= j
            IN SubSeq(existingContent, 1, c - 1)
               \o <<NL>> \o JoinWith(Singletons(newDeps), <<NL>>) \o <<NL, Indent>>
               \o SubSeq(existingContent, c, Len(existingContent))
       ELSE mergeXmlFile(existingContent, newContent)

mergeConfigFile(existingContent, newContent) ==
    existingContent \o <<NL, NL, "# Added by MCP Integration", NL>> \o newContent

\* a merge that does not know the replace strategy
mergeFileContentNoReplace(existingContent, newContent, filePath, strategy) ==
    IF strategy = "append" THEN existingContent \o <<NL>> \o newContent
    ELSE existingContent \o <<NL, NL>> \o newContent

\* a merge that looks at the extension before it looks at the strategy
mergeFileContentByExtension(existingContent, newContent, filePath, strategy) ==
    LET ext == Extname(filePath)
    IN IF strategy = "replace" THEN newContent
       ELSE IF ext = ".java" THEN mergeJavaFile(existingContent, newContent)
       ELSE IF strategy = "append" THEN existingContent \o <<NL>> \o newContent
       ELSE existingContent \o <<NL, NL>> \o newContent

mergeFileContent(existingContent, newContent, filePath, strategy) ==
    LET ext == Extname(filePath)
    IN IF strategy = "append" THEN existingContent \o <<NL>> \o newContent
       ELSE IF strategy = "replace" THEN newContent
       ELSE CASE ext = ".java" -> mergeJavaFile(existingContent, newContent)
              [] ext = ".xml" ->
                    IF "pom.xml" \in Range(filePath)
                    THEN mergePomXml(existingContent, newContent)
                    ELSE mergeXmlFile(existingContent, newContent)
              [] ext \in {".properties", ".yml", ".yaml"} ->
                    mergeConfigFile(existingContent, newContent)
              [] OTHER -> existingContent \o <<NL, NL>> \o newContent

(***************************************************************************)
(* The world the program runs in: directories, files and the descriptors   *)
(* the remote service may send.                                            *)
(***************************************************************************)
ProjRoot == <<SL, "proj">>
MissingRoot == <<SL, "missing">>
FileRoot == <<SL, "proj", SL, "pom.xml">>
ReadOnlyRoot == <<SL, "ro">>
RootChoices == {ProjRoot, MissingRoot, FileRoot, ReadOnlyRoot}

\* directories fs.access(dir, W_OK) rejects
ReadOnlyDirs == {ReadOnlyRoot}

ValidActions == {"create", "modify", "append"}

Desc(p, a, c, m) == [path |-> p, action |-> a, content |-> c, mergeStrategy |-> m]

PlainPath == <<"src", SL, "User.java">>
FreshPath == <<"src", SL, "README.md">>
PackagePath ==
    <<"src", SL, "com", SL, "example", SL, "test_service", SL, "User.java">>

\* The descriptors of the model; "" stands for an absent mergeStrategy and
\* <<>> for absent or empty content.
Descriptors ==
    { Desc(PlainPath, a, <<"new">>, "") : a \in {"create", "append", "modify", "delete"} }
    \cup { Desc(PlainPath, "modify", <<"new">>, m) : m \in {"replace", "append"} }
    \cup { Desc(PlainPath, "modify", <<>>, "") }
    \cup { Desc(FreshPath, "modify", <<"new">>, "replace") }
    \cup { Desc(FreshPath, "append", <<"new">>, "") }
    \cup { Desc(<<SL, "src", SL, "User.java">>, "create", <<"new">>, "") }
    \cup { Desc(<<"..", SL, "etc", SL, "passwd">>, "modify", <<"new">>, "") }
    \cup { Desc(<<SL, SL, "etc", SL, "passwd">>, "modify", <<"new">>, "") }
    \cup { Desc(<<"..", SL, "proj-evil", SL, "x.txt">>, "create", <<"new">>, "") }
    \cup { Desc(PackagePath, "create", <<"com.example.test_service.", "new">>, "") }

\* the I/O fault the environment may inject while one descriptor is processed:
\* in the target's mkdir, in its write, in the stat that follows the write,
\* or in createBackup's mkdir or copy
Faults == {"ok", "mkdir", "write", "stat", "backup-mkdir", "backup-copy"}

\* the descriptors the model injects a fault into: the plain descriptors
\* with content, and for mkdir the one whose directory is yet to be made
Faulty(file, fault) ==
    \/ /\ file.path = PlainPath
       /\ file.content # <<>>
       /\ file.mergeStrategy \in {"", "replace"}
       /\ file.action \in {"create", "modify"}
       /\ fault # "mkdir"
    \/ /\ file.path = PackagePath
       /\ fault = "mkdir"

BaseFiles ==
    ( <<SL, "proj", SL, "pom.xml">> :> <<"pom">> )
    @@ ( <<SL, "proj", SL, "src", SL, "User.java">> :> <<"old">> )
    @@ ( <<SL, "etc", SL, "passwd">> :> <<"root">> )

BaseDirs == { <<SL, "proj">>, <<SL, "proj", SL, "src">>,
              <<SL, "ro">>, <<SL, "etc">> }

(***************************************************************************)
(* FileService (src/services/fileService.js, second class of the file).    *)
(***************************************************************************)
backupDir == <<".mcp-backups">>

NoRoot == <<>>

\* correctedPath.startsWith('/') ? correctedPath.substring(1) : correctedPath
StripLeadingSlash(p) == IF IsAbsolute(p) THEN Tail(p) ELSE p

\* positions i where p holds "/com/example/" followed by "<name>/"
PatternStarts(p) ==
    {i \in DOMAIN p :
        /\ i + 6 <= Len(p)
        /\ SubSeq(p, i, i + 4) = <<SL, "com", SL, "example", SL>>
        /\ p[i + 5] # SL
        /\ p[i + 6] = SL}

\* the regular expression's replacement target inside file content
QualifiedRef(middlePart) ==
    CASE middlePart = "test_service" -> "com.example.test_service."
      [] middlePart = "entity" -> "com.example.entity."
      [] middlePart = "Shared" -> "com.example.Shared."
      [] middlePart = "My_App" -> "com.example.My_App."
      [] OTHER -> "com.example.<other>."

\* lines 583-615: the corrected path and content of one descriptor
CorrectDescriptor(file, remove) ==
    LET stripped == StripLeadingSlash(file.path)
        starts == PatternStarts(stripped)
    IN IF remove /\ starts # {}
       THEN LET i == CHOOSE k \in starts : \A j \in starts : j <= k
                basePath == SubSeq(stripped, 1, i + 4)
                middlePart == stripped[i + 5]
                restOfPath == SubSeq(stripped, i + 7, Len(stripped))
            IN IF HasUnderscore(middlePart) \/ IsLowerCase(middlePart)
               THEN [path |-> basePath \o restOfPath,
                     content |->
                        IF file.content # <<>> /\ EndsWithJava(file.path)
                        THEN [k \in DOMAIN file.content |->
                                IF file.content[k] = QualifiedRef(middlePart)
                                THEN "com.example." ELSE file.content[k]]
                        ELSE file.content]
               ELSE [path |-> stripped, content |-> file.content]
       ELSE [path |-> stripped, content |-> file.content]

\* where the process finds a path of the program on disk
OnDisk(p) == Resolve(Cwd, p)

\* a verification that leaves out fs.access(W_OK)
verifyProjectRootNoAccess ==
    /\ projectRoot # NoRoot
    /\ OnDisk(projectRoot) \in dirs

\* lines 520-541
verifyProjectRoot ==
    /\ projectRoot # NoRoot
    /\ OnDisk(projectRoot) \in dirs
    /\ OnDisk(projectRoot) \notin ReadOnlyDirs

\* lines 624-629: the security check of one resolved path
WithinProjectRoot(fullPath, root) ==
    StartsWith(Normalize(fullPath), Normalize(root))

\* fs.mkdir(dir, {recursive: true}) fails when a component is a file
MkdirFails(dir, fls) == \E a \in Ancestors(dir) : a \in DOMAIN fls

Op(kind, at, content) == [op |-> kind, at |-> at, content |-> content]

BackupKey(root, relativePath, ts) ==
    [dir |-> OnDisk(Join(root, backupDir)), name |-> Basename(relativePath), ts |-> ts]

\* a createBackup that copies nothing
createBackupNever(fs, fullPath, relativePath, root, ts, fault) ==
    [fs EXCEPT !.ops = <<>>]

\* lines 720-735: the file system after createBackup, and what it did
createBackup(fs, fullPath, relativePath, root, ts, fault) ==
    IF fullPath \notin DOMAIN fs.files /\ fullPath \notin fs.dirs
    THEN [fs EXCEPT !.ops = <<>>]
    ELSE LET key == BackupKey(root, relativePath, ts)
         IN IF fault = "backup-mkdir" \/ MkdirFails(key.dir, fs.files)
            THEN [fs EXCEPT !.ops = <<>>]
            ELSE IF fault = "backup-copy" \/ fullPath \in fs.dirs
                 THEN [fs EXCEPT !.dirs = @ \cup Ancestors(key.dir),
                                 !.ops = <<Op("mkdir", key.dir, <<>>)>>]
                 ELSE [files |-> fs.files,
                       dirs |-> fs.dirs \cup Ancestors(key.dir),
                       backups |-> [k \in DOMAIN fs.backups \cup {key} |->
                                      IF k = key THEN fs.files[fullPath]
                                      ELSE fs.backups[k]],
                       ops |-> <<Op("mkdir", key.dir, <<>>),
                                 Op("backup", key.dir, fs.files[fullPath])>>]

\* a write that leaves an existing file as it is (flag 'wx')
WriteFileIfAbsent(fls, fullPath, content) ==
    [p \in DOMAIN fls \cup {fullPath} |-> IF p \in DOMAIN fls THEN fls[p] ELSE content]

\* fs.writeFile(fullPath, content)
WriteFile(fls, fullPath, content) ==
    [p \in DOMAIN fls \cup {fullPath} |-> IF p = fullPath THEN content ELSE fls[p]]

\* a modify that merges by appending whatever strategy the descriptor names
WrittenAppending(file, fls, fullPath, correctedPath, correctedContent) ==
    IF file.action = "create" THEN correctedContent
    ELSE IF file.action = "append"
         THEN (IF fullPath \in DOMAIN fls THEN fls[fullPath] ELSE <<>>)
              \o correctedContent
         ELSE IF fullPath \notin DOMAIN fls THEN correctedContent
              ELSE mergeFileContent(fls[fullPath], correctedContent, correctedPath,
                                    "append")

\* lines 648-682: the content the target holds after the action succeeded
Written(file, fls, fullPath, correctedPath, correctedContent) ==
    IF file.action = "create" THEN correctedContent
    ELSE IF file.action = "append"
         THEN (IF fullPath \in DOMAIN fls THEN fls[fullPath] ELSE <<>>)
              \o correctedContent
         ELSE IF fullPath \notin DOMAIN fls THEN correctedContent
              ELSE mergeFileContent(fls[fullPath], correctedContent, correctedPath,
                                    IF file.mergeStrategy = "" THEN "smart"
                                    ELSE file.mergeStrategy)

\* the verification of the earlier version (lines 340-342): no try/catch
VerifyThrowsUncaught(fault) == fault = "stat"

\* lines 687-693: the failure of fs.stat after the write is caught and logged
VerifyThrows(fault) == FALSE

\* a createBackup without its try/catch: the failure reaches the loop
BackupThrowsUncaught(fault) == fault \in {"backup-mkdir", "backup-copy"}

\* lines 721, 731-734: createBackup's catch ends every failure of its body,
\* so none reaches the loop's own catch
BackupThrows(fault) == FALSE

\* lines 581-701: one iteration of the loop over category.files.  Gives the
\* file system afterwards, the operations done in their order, and the outcome.
FileStep(file, fault) ==
    LET corr == CorrectDescriptor(file, removeProjectNameFromPath)
        fullPath == Resolve(projectRoot, corr.path)
        dir == Dirname(fullPath)
        fs0 == [files |-> files, dirs |-> dirs, backups |-> backups, ops |-> <<>>]
        base == [corrected |-> corr.path, content |-> corr.content,
                 fullPath |-> fullPath]
    IN IF ~WithinProjectRoot(fullPath, projectRoot)
       THEN base @@ fs0
            @@ [outcome |-> "error", error |-> "security", counted |-> FALSE]
       ELSE IF fault = "mkdir" \/ MkdirFails(dir, files)
       THEN base @@ fs0
            @@ [outcome |-> "error", error |-> "mkdir", counted |-> FALSE]
       ELSE
         LET fs1 == [fs0 EXCEPT !.dirs = @ \cup Ancestors(dir)]
             mk == <<Op("mkdir", dir, <<>>)>>
         IN IF file.action \notin ValidActions
            THEN base @@ [fs1 EXCEPT !.ops = mk]
                 @@ [outcome |-> "ignored", error |-> "", counted |-> FALSE]
            ELSE
              LET fs2 == IF autoBackup
                         THEN createBackup(fs1, fullPath, corr.path, projectRoot, now, fault)
                         ELSE fs1
                  ops2 == mk \o fs2.ops
              IN IF autoBackup /\ BackupThrows(fault)
                 THEN base @@ [fs2 EXCEPT !.ops = ops2]
                      @@ [outcome |-> "error", error |-> "backup", counted |-> FALSE]
                 ELSE IF corr.content = <<>>
                 THEN base @@ [fs2 EXCEPT !.ops = ops2]
                      @@ [outcome |-> "skipped", error |-> "", counted |-> FALSE]
                 ELSE IF fault = "write" \/ fullPath \in fs2.dirs
                 THEN base @@ [fs2 EXCEPT !.ops = ops2]
                      @@ [outcome |-> "error", error |-> "write", counted |-> FALSE]
                 ELSE
                   LET c == Written(file, fs2.files, fullPath, corr.path, corr.content)
                   IN base
                      @@ [fs2 EXCEPT !.files = WriteFile(fs2.files, fullPath, c),
                                     !.ops = ops2 \o <<Op("write", fullPath, c)>>]
                      @@ (IF VerifyThrows(fault)
                          THEN [outcome |-> "error", error |-> "stat",
                                counted |-> TRUE]
                          ELSE [outcome |-> "applied", error |-> "",
                                counted |-> TRUE])

\* lines 737-745
ensureBackupDirectory(ds, fls, root, ok) ==
    IF ok /\ ~MkdirFails(OnDisk(Join(root, backupDir)), fls)
    THEN ds \cup Ancestors(OnDisk(Join(root, backupDir)))
    ELSE ds

NoLast ==
    [file |-> [path |-> <<>>, action |-> "", content |-> <<>>, mergeStrategy |-> ""],
     root |-> NoRoot, corrected |-> <<>>, content |-> <<>>, fullPath |-> <<>>,
     existed |-> FALSE, before |-> <<>>, ops |-> <<>>, outcome |-> "none",
     error |-> "", counted |-> FALSE, fault |-> "ok", newBackups |-> 0, ts |-> 0]

NoResult == [kind |-> "none", root |-> NoRoot, count |-> 0, files |-> <<>>,
             errors |-> <<>>]

\* The disk at the start: /proj holds a project with src/User.java, /ro is
\* read-only and /missing does not exist.
InitFS ==
    /\ now = 0
    /\ backups = << >>
    /\ files = BaseFiles
    /\ dirs = BaseDirs

\* constructor, lines 503-509
InitFileService ==
    /\ projectRoot = NoRoot
    /\ removeProjectNameFromPath = TRUE
    /\ autoBackup \in BOOLEAN
    /\ pc = "idle"
    /\ filesApplied = 0
    /\ appliedFilesList = <<>>
    /\ errors = <<>>
    /\ applyResult = NoResult
    /\ last = NoLast
    /\ nDesc = 0
    /\ nDoomed = 0
    /\ allValid = TRUE
    /\ total = 0

(***************************************************************************)
(* The remote generation service as McpService sees it                     *)
(* (src/services/mcpService.js).                                           *)
(***************************************************************************)
\* what one HTTP exchange may come to
RemoteReplies == {"ok", "http-error", "error-payload", "refused", "timeout"}

\* the plan identifiers the remote service hands out
PlanIds == {"plan-1", "plan-2"}

Failure(class, message) == [ok |-> FALSE, class |-> class, message |-> message]

\* the exchanges with a service that is reachable and answers, UP or not,
\* with garbage, with an error status or an error payload, and those with a
\* service that is not reachable
ReachableReplies ==
    {"ok", "down", "invalid-json", "http-error", "error-payload", "error-no-message"}
UnreachableReplies == {"refused", "timeout", "dns"}

\* makeRequest: the parsed data, or the Error it throws
makeRequest(reply) ==
    CASE reply \in {"ok", "down"} -> [ok |-> TRUE, class |-> "", message |-> ""]
      [] reply = "invalid-json" -> Failure("remote", "Invalid JSON response")
      [] reply = "http-error" -> Failure("remote", "HTTP 500: Internal Server Error")
      [] reply = "error-payload" -> Failure("remote", "data.error.message")
      [] reply = "error-no-message" -> Failure("remote", "Unknown server error")
      [] reply = "refused" ->
            Failure("connectivity", "Cannot connect to MCP server")
      [] reply = "timeout" -> Failure("connectivity", "Request timeout")
      [] reply = "dns" ->
            Failure("connectivity", "request to url failed, reason: ENOTFOUND")

\* mcpService.js 26-29: the catch of testConnection wraps the message of
\* whatever was thrown
ConnectionError(message) == <<"Cannot connect to MCP server at ", "baseUrl", ": ", message>>

\* mcpService.js 16-30: true, or the Error it throws
testConnection(reply) ==
    LET response == makeRequest(reply)
    IN IF ~response.ok
       THEN [ok |-> FALSE, message |-> ConnectionError(response.message)]
       ELSE IF reply = "ok" THEN [ok |-> TRUE, message |-> <<>>]
       ELSE [ok |-> FALSE, message |-> ConnectionError("Health check failed")]

\* mcpService.js 32-85: createPlan and executePlan rethrow what makeRequest threw
RemoteCall(reply) ==
    LET response == makeRequest(reply)
    IN [ok |-> response.ok,
        message |-> IF response.ok THEN <<>> ELSE <<response.message>>]

\* the request identifiers a caller may set; "unknown" when none was set
RequestIds == {"unknown", "req-1", "req-2"}

NoRemote ==
    [currentRequestId |-> "unknown", endpoint |-> "", requestId |-> "",
     reply |-> "", ok |-> TRUE, message |-> <<>>]

(***************************************************************************)
(* Tool invocations: PostgreSQLTool (src/tools/postgresqlTool.js), and the  *)
(* CallTool handler of PostgreSQLMCPServer (src/server.js) with PlanTool,   *)
(* ExecuteTool and StatusTool.                                             *)
(***************************************************************************)
ToolNames == {"create_postgresql_integration_plan",
              "execute_postgresql_integration",
              "get_postgresql_integration_status",
              "generate_postgresql_integration",
              "drop_database"}

\* the project paths a caller passes; <<>> stands for an absent projectPath
NoPath == <<>>
ToolPaths == {NoPath, MissingRoot, FileRoot, ReadOnlyRoot}

\* preferences.removeProjectNameFromPath as the caller may give it
RemovePreferences == {"undefined", "false"}

\* preferences.mergeStrategy as the caller may give it
MergePreferences == {"undefined", "smart", "append", "replace"}

\* the arguments of the tool calls whose preferences play no part
ToolArgs ==
    [projectPath : ToolPaths, applyToProject : BOOLEAN,
     removeProjectNameFromPath : {"undefined"},
     mergeStrategy : {"undefined"}]

\* the arguments of the combined tool in a project that is in order:
\* projectPath absent, '.', another relative path, or absolute
GeneratePaths == {NoPath, <<".">>, <<"src">>, ProjRoot}

\* every path with the preferences left out, and every preference with the
\* project given by its absolute path
GenerateArgs ==
    { a \in [projectPath : GeneratePaths, applyToProject : {TRUE},
             removeProjectNameFromPath : RemovePreferences \cup {"true"},
             mergeStrategy : MergePreferences] :
          \/ a.removeProjectNameFromPath = "undefined" /\ a.mergeStrategy = "undefined"
          \/ a.projectPath = ProjRoot /\ a.mergeStrategy = "undefined"
          \/ a.projectPath = ProjRoot /\ a.removeProjectNameFromPath = "undefined" }

\* the files the remote service generates for these invocations
GenerateFiles ==
    { Desc(PlainPath, "modify", <<"new">>, ""),
      Desc(PlainPath, "modify", <<"new">>, "append"),
      Desc(PackagePath, "create", <<"com.example.test_service.", "new">>, "") }

\* a second invocation of the combined tool, for another project
PeerRoot == <<SL, "etc">>

PeerArgs ==
    [projectPath : {PeerRoot}, applyToProject : {FALSE},
     removeProjectNameFromPath : RemovePreferences,
     mergeStrategy : {"undefined"}]

\* the first invocation's arguments when a second one runs beside it
ConcurrentArgs ==
    [projectPath : {NoPath, ProjRoot}, applyToProject : {TRUE},
     removeProjectNameFromPath : {"undefined"},
     mergeStrategy : {"undefined"}]

NoPeer == [phase |-> "idle", calls |-> 0]

\* the files the remote service generates for the combined tool
GeneratedFiles ==
    { Desc(PlainPath, "create", <<"new">>, ""),
      Desc(PlainPath, "modify", <<"new">>, "replace"),
      Desc(PlainPath, "modify", <<>>, ""),
      Desc(<<"..", SL, "proj-evil", SL, "x.txt">>, "create", <<"new">>, "") }

\* what an invocation gives its caller
Response(kind, heading, code, count, issues) ==
    [kind |-> kind, heading |-> heading, code |-> code, filesApplied |-> count,
     issues |-> issues]

NoResponse == Response("none", "", "", 0, <<>>)

\* postgresqlTool.js 705-718: '# PostgreSQL Integration Failed'
formatErrorResponse(error) == Response("text", "failed", "", 0, <<error.message>>)

\* postgresqlTool.js 605-703: '# PostgreSQL Integration Completed Successfully!'
formatCombinedResponse(applyToProject, count, applicationErrors) ==
    Response("text", "completed", "", count, applicationErrors)

\* a catch clause that lets the raw Error through
CallToolRethrow(error) == Response("thrown", "", "", 0, <<error.message>>)

\* server.js 85-96: the catch clause of the CallTool handler
CallToolCatch(error) ==
    Response("mcp-error", "", IF error.class = "McpError" THEN error.message
                              ELSE "InternalError", 0, <<error.message>>)

\* a phase 2 request that names a plan of its own
ExecutePlanRequestStale(planResponse) == [planId |-> "plan-1"]

\* postgresqlTool.js 506-509: the request of phase 2
ExecutePlanRequest(planResponse) == [planId |-> planResponse.planId]

\* a phase 3 that runs whenever files were generated
ShouldApplyAlways(applyToProject, generatedFiles) == generatedFiles

\* postgresqlTool.js 532: whether phase 3 runs
ShouldApply(applyToProject, generatedFiles) == applyToProject /\ generatedFiles

\* postgresqlTool.js 437-482: fs.stat succeeds and gives a directory
ValidProjectPath(p) == OnDisk(p) \in dirs

defaultProjectDirectory == Cwd

NoArgs == [projectPath |-> NoPath, applyToProject |-> TRUE,
           removeProjectNameFromPath |-> "undefined", mergeStrategy |-> "undefined"]

\* no invocation yet, in a process reached through `via`
NoCall(via) ==
    [via |-> via, name |-> "", tool |-> "none", phase |-> "idle", args |-> NoArgs,
     planId |-> "", sentPlanId |-> "", trace |-> <<>>, failure |-> "",
     failedAt |-> "",
     snap |-> <<>>, result |-> NoResponse, afterFailure |-> FALSE]

\* FileService driven through its own methods, without a tool
ApiUse == NoCall("api")

\* the values of process.env.AUTO_BACKUP
AutoBackupEnv == {"undefined", "true", "false", "0"}

\* index.js 14-20: the autoBackup key of serverConfig
serverConfig(env) == [autoBackup |-> ((env = "true") \/ TRUE)]

\* no merge made yet
NoMerge == [done |-> FALSE, existingContent |-> <<>>, newContent |-> <<>>,
            filePath |-> <<>>, strategy |-> "", out |-> <<>>]

\* no correction made yet
NoFix == [done |-> FALSE, remove |-> TRUE, prefix |-> <<>>, seg |-> "", rest |-> <<>>,
          file |-> [path |-> <<>>, action |-> "", content |-> <<>>,
                    mergeStrategy |-> ""],
          out |-> [path |-> <<>>, content |-> <<>>],
          again |-> [path |-> <<>>, content |-> <<>>]]

\* a process without index.js, and one whose main() has attached the transport
NoBoot == [env |-> "undefined", phase |-> "none", health |-> ""]
Serving == [env |-> "undefined", phase |-> "listening", health |-> "ok"]

fsVars == <<files, dirs, backups>>
(***************************************************************************)
(* The status probe: FileService.checkIntegrationStatus, fileExists and    *)
(* findJavaFiles (src/services/fileService.js 873-977).                     *)
(***************************************************************************)
\* String.prototype.includes on file content
Includes(content, marker) == marker \in Range(content)

\* lines 948-955: fs.access(filePath) succeeds
fileExists(filePath, fls, ds) ==
    OnDisk(filePath) \in DOMAIN fls \/ OnDisk(filePath) \in ds

\* fs.readFile(filePath, 'utf8'): the content, or a rejection
ReadFile(filePath, fls, unreadable) ==
    IF OnDisk(filePath) \in DOMAIN fls /\ OnDisk(filePath) \notin unreadable
    THEN [ok |-> TRUE, content |-> fls[OnDisk(filePath)]]
    ELSE [ok |-> FALSE, content |-> <<>>]

\* content.slice(0, 1000)
Slice(content) ==
    SubSeq(content, 1, IF Len(content) < SliceLen THEN Len(content) ELSE SliceLen)

\* f.path.includes('/repository/')
InRepositoryDir(p) == "repository" \in Range(Dirname(p))

\* lines 957-977.  readdir rejects for a missing or unreadable directory; when
\* the read of a .java file rejects, the catch ends the scan of its directory,
\* which keeps what was listed before that file (the entries in early).
RECURSIVE findJavaFiles(_, _, _, _, _)
findJavaFiles(dir, fls, ds, unreadable, early) ==
    IF dir \notin ds \/ dir \in unreadable THEN {}
    ELSE LET entries == {q \in DOMAIN fls : Dirname(q) = dir}
             subdirs == {d \in ds : d # dir /\ Dirname(d) = dir}
             broken == \E q \in entries : EndsWithJava(q) /\ q \in unreadable
             listed(x) == ~broken \/ x \in early
         IN { [path |-> q, content |-> Slice(fls[q])] :
                  q \in {e \in entries : EndsWithJava(e) /\ e \notin unreadable
                                          /\ listed(e)} }
            \cup UNION { findJavaFiles(d, fls, ds, unreadable, early) :
                             d \in {x \in subdirs : listed(x)} }

\* the first of two candidate files that exists is read; none gives ''
ReadFirst(first, second, fls, ds, unreadable) ==
    IF fileExists(first, fls, ds) THEN ReadFile(first, fls, unreadable)
    ELSE IF fileExists(second, fls, ds) THEN ReadFile(second, fls, unreadable)
    ELSE [ok |-> TRUE, content |-> <<>>]

\* the build and config sections without their try/catch
RethrownUncaught(read) == ~read.ok

\* lines 904-906 and 918-920: the catch around each read logs and goes on
Rethrown(read) == FALSE

Components(d, c, e, r, s, k) ==
    [dependencies |-> d, configuration |-> c, entities |-> e, repositories |-> r,
     services |-> s, controllers |-> k]

\* lines 873-946
checkIntegrationStatus(projectPath, root, fls, ds, unreadable, early) ==
    LET checkPath == IF projectPath # NoPath THEN projectPath ELSE root
    IN IF checkPath = NoRoot
       THEN [threw |-> TRUE, configured |-> FALSE,
             components |-> Components(FALSE, FALSE, FALSE, FALSE, FALSE, FALSE)]
       ELSE
         LET build == ReadFirst(Join(checkPath, <<"pom.xml">>),
                                Join(checkPath, <<"build.gradle">>),
                                fls, ds, unreadable)
             hasJPA == build.ok
                       /\ Includes(build.content, "spring-boot-starter-data-jpa")
             hasPostgreSQL == build.ok /\ Includes(build.content, "postgresql")
             appConfig ==
                 ReadFirst(Join(checkPath, <<"src", SL, "main", SL, "resources",
                                             SL, "application.yml">>),
                           Join(checkPath, <<"src", SL, "main", SL, "resources",
                                             SL, "application.properties">>),
                           fls, ds, unreadable)
             hasDataSourceConfig ==
                 /\ appConfig.ok
                 /\ Includes(appConfig.content, "datasource")
                 /\ Includes(appConfig.content, "postgresql")
             srcPath == Join(checkPath, <<"src", SL, "main", SL, "java">>)
             javaFiles == findJavaFiles(OnDisk(srcPath), fls, ds, unreadable, early)
         IN [threw |-> Rethrown(build) \/ Rethrown(appConfig),
             configured |-> hasJPA /\ hasPostgreSQL /\ hasDataSourceConfig,
             components |->
                 Components(
                     hasJPA /\ hasPostgreSQL,
                     hasDataSourceConfig,
                     \E f \in javaFiles : Includes(f.content, "@Entity"),
                     \E f \in javaFiles : Includes(f.content, "Repository")
                                          /\ InRepositoryDir(f.path),
                     \E f \in javaFiles : Includes(f.content, "@Service"),
                     \E f \in javaFiles : Includes(f.content, "@RestController"))]

\* no probe yet
NoProbe ==
    [done |-> FALSE, path |-> NoPath, root |-> NoRoot, unreadable |-> {},
     early |-> {},
     status |-> [threw |-> FALSE, configured |-> FALSE,
                 components |-> Components(FALSE, FALSE, FALSE, FALSE, FALSE, FALSE)],
     before |-> <<>>]

auxVars == <<probe, peer, remote, batch, boot, fix, mergeCall>>
toolVars == <<proc, call, auxVars>>
loopVars == <<filesApplied, appliedFilesList, errors, last, nDesc, nDoomed, allValid>>

\* lines 512-518
setProjectRoot(root) ==
    /\ pc = "idle"
    /\ call.via = "api"
    /\ projectRoot' = root
    /\ UNCHANGED <<removeProjectNameFromPath, autoBackup, fsVars, now, pc,
                   loopVars, applyResult, total, toolVars>>

\* lines 548-551
setRemoveProjectNameFromPath(remove) ==
    /\ pc = "idle"
    /\ call.via = "api"
    /\ removeProjectNameFromPath' = remove
    /\ UNCHANGED <<projectRoot, autoBackup, fsVars, now, pc, loopVars,
                   applyResult, total, toolVars>>

\* lines 553-574: the precondition and the set-up of applyGeneratedFiles
ApplyStart(ensureOk) ==
    /\ pc = "idle"
    /\ proc = "running"
    /\ \/ call.via = "api"
       \/ call.phase = "apply" /\ applyResult.kind = "none"
    /\ filesApplied' = 0
    /\ appliedFilesList' = <<>>
    /\ errors' = <<>>
    /\ last' = NoLast
    /\ nDesc' = 0
    /\ nDoomed' = 0
    /\ allValid' = TRUE
    /\ IF projectRoot = NoRoot
       THEN /\ applyResult' = [NoResult EXCEPT !.kind = "throw-unset"]
            /\ UNCHANGED <<pc, fsVars>>
       ELSE IF ~verifyProjectRoot
       THEN /\ applyResult' = [NoResult EXCEPT !.kind = "throw-invalid",
                                                !.root = projectRoot]
            /\ UNCHANGED <<pc, fsVars>>
       ELSE /\ applyResult' = NoResult
            /\ pc' = "loop"
            /\ dirs' = IF autoBackup
                       THEN ensureBackupDirectory(dirs, files, projectRoot, ensureOk)
                       ELSE dirs
            /\ UNCHANGED <<files, backups>>
    /\ UNCHANGED <<projectRoot, removeProjectNameFromPath, autoBackup, now, total,
                   toolVars>>

\* lines 580-702: the loop body, for the next descriptor of the batch
ProcessFile(file, fault) ==
    /\ pc = "loop"
    /\ proc = "running"
    /\ total < MaxFiles
    /\ fault \in {"backup-mkdir", "backup-copy"} => autoBackup
    /\ fault # "ok" => Faulty(file, fault)
    /\ \E r \in {FileStep(file, fault)} :
          /\ fault = "mkdir" => Dirname(r.fullPath) \notin dirs
          /\ files' = r.files
          /\ dirs' = r.dirs
          /\ backups' = r.backups
          /\ filesApplied' = IF r.counted THEN filesApplied + 1
                             ELSE filesApplied
          /\ appliedFilesList' = IF r.counted
                                 THEN Append(appliedFilesList, r.corrected)
                                 ELSE appliedFilesList
          /\ errors' = IF r.outcome = "error"
                       THEN Append(errors, [path |-> file.path, error |-> r.error])
                       ELSE errors
          /\ last' = [file |-> file, root |-> projectRoot,
                      corrected |-> r.corrected, content |-> r.content,
                      fullPath |-> r.fullPath,
                      existed |-> r.fullPath \in DOMAIN files,
                      before |-> IF r.fullPath \in DOMAIN files
                                 THEN files[r.fullPath] ELSE <<>>,
                      ops |-> r.ops, outcome |-> r.outcome, error |-> r.error,
                      counted |-> r.counted,
                      fault |-> fault, ts |-> now,
                      newBackups |-> Cardinality(DOMAIN r.backups \ DOMAIN backups)]
          /\ nDoomed' = IF fault \in {"mkdir", "write"}
                           \/ ~Inside(r.fullPath, OnDisk(projectRoot))
                        THEN nDoomed + 1 ELSE nDoomed
          /\ allValid' = (allValid /\ file.action \in ValidActions
                          /\ file.content # <<>>)
    /\ nDesc' = nDesc + 1
    /\ total' = total + 1
    /\ UNCHANGED <<projectRoot, removeProjectNameFromPath, autoBackup, now, pc,
                   applyResult, toolVars>>

\* lines 705-717
ApplyReturn ==
    /\ pc = "loop"
    /\ proc = "running"
    /\ pc' = "idle"
    /\ applyResult' = [kind |-> "return", root |-> projectRoot,
                       count |-> filesApplied, files |-> appliedFilesList,
                       errors |-> errors]
    /\ last' = NoLast
    /\ UNCHANGED <<projectRoot, removeProjectNameFromPath, autoBackup, fsVars,
                   now, filesApplied, appliedFilesList, errors, nDesc, nDoomed,
                   allValid, total, toolVars>>

\* time passes; the clock of the model starts with the first backup, the
\* first value new Date() gives that a file name keeps
Tick ==
    /\ now < MaxClock
    /\ backups # << >>
    /\ now' = now + 1
    /\ UNCHANGED <<projectRoot, removeProjectNameFromPath, autoBackup, fsVars, pc,
                   loopVars, applyResult, total, toolVars>>

(***************************************************************************)
(* PostgreSQLTool.execute, called by its owner (test-combined-tool.js).    *)
(***************************************************************************)
\* a preference that is kept from the invocation before when left out
RemovePreferenceKept(args) ==
    IF args.removeProjectNameFromPath = "undefined" THEN removeProjectNameFromPath
    ELSE args.removeProjectNameFromPath # "false"

\* postgresqlTool.js 486: preferences.removeProjectNameFromPath !== false
RemovePreference(args) == args.removeProjectNameFromPath # "false"

\* a new invocation, remembering whether an earlier one failed
Started(name, args) ==
    [NoCall(call.via) EXCEPT
        !.name = name, !.args = args, !.snap = <<files, dirs, backups>>,
        !.afterFailure = (call.afterFailure \/ call.failure # "")]

\* postgresqlTool.js 415-497: path validation, the two setters and the
\* request of phase 1
PostgreSQLToolExecute(args) ==
    /\ proc = "running"
    /\ call.via = "direct"
    /\ call.phase = "idle"
    /\ LET resolvedProjectPath ==
               IF args.projectPath # NoPath THEN args.projectPath
               ELSE defaultProjectDirectory
           started == [Started("generate_postgresql_integration", args)
                          EXCEPT !.tool = "postgresql", !.trace = <<"validate">>]
       IN IF ~ValidProjectPath(resolvedProjectPath)
          THEN /\ call' = [started EXCEPT
                              !.failure = "invalid-path",
                              !.failedAt = "validate",
                              !.result = Response("thrown", "", "", 0,
                                                  <<"Invalid project path">>)]
               /\ UNCHANGED <<projectRoot, removeProjectNameFromPath>>
          ELSE /\ projectRoot' = resolvedProjectPath
               /\ removeProjectNameFromPath' = RemovePreference(args)
               /\ call' = [started EXCEPT
                              !.phase = "plan",
                              !.trace = Append(@, "createPlan")]
    /\ UNCHANGED <<autoBackup, fsVars, now, pc, loopVars, applyResult, total, proc,
                   auxVars>>

\* the answer to createPlan: postgresqlTool.js 493-509 and 592-602,
\* planTool.js 42-60
PlanResponse(reply, planId) ==
    /\ proc = "running"
    /\ call.phase = "plan"
    /\ LET r == makeRequest(reply)
           planResponse == [planId |-> planId]
       IN IF call.tool = "postgresql"
          THEN IF r.ok
               THEN call' = [call EXCEPT
                               !.phase = "execute",
                               !.planId = planId,
                               !.sentPlanId = ExecutePlanRequest(planResponse).planId,
                               !.trace = Append(@, "executePlan")]
               ELSE call' = [call EXCEPT
                               !.phase = "idle",
                               !.failure = r.class,
                               !.failedAt = "createPlan",
                               !.result = formatErrorResponse(r)]
          ELSE IF r.ok
               THEN call' = [call EXCEPT
                               !.phase = "idle",
                               !.planId = planId,
                               !.result = Response("text", "plan", "", 0, <<>>)]
               ELSE call' = [call EXCEPT
                               !.phase = "idle",
                               !.failure = r.class,
                               !.failedAt = "createPlan",
                               !.result = CallToolCatch(r)]
    /\ UNCHANGED <<projectRoot, removeProjectNameFromPath, autoBackup, fsVars, now,
                   pc, loopVars, applyResult, total, proc,
                   auxVars>>

\* the answer to executePlan: postgresqlTool.js 506-532 and 569-602,
\* executeTool.js 245-276
ExecutionResponse(reply, generatedFiles) ==
    /\ proc = "running"
    /\ call.phase = "execute"
    /\ LET r == makeRequest(reply)
           apply == IF call.tool = "postgresql"
                    THEN ShouldApply(call.args.applyToProject, generatedFiles)
                    ELSE call.args.applyToProject
       IN IF ~r.ok
          THEN /\ call' = [call EXCEPT
                              !.phase = "idle",
                              !.failure = r.class,
                              !.failedAt = "executePlan",
                              !.result = IF call.tool = "postgresql"
                                         THEN formatErrorResponse(r)
                                         ELSE CallToolCatch(r)]
               /\ UNCHANGED applyResult
          ELSE IF apply
          THEN /\ call' = [call EXCEPT !.phase = "apply",
                                       !.trace = Append(@, "apply")]
               /\ applyResult' = NoResult
          ELSE /\ call' = [call EXCEPT
                              !.phase = "idle",
                              !.result =
                                  IF call.tool = "postgresql"
                                  THEN formatCombinedResponse(
                                           call.args.applyToProject, 0, <<>>)
                                  ELSE Response("text", "completed", "", 0, <<>>)]
               /\ UNCHANGED applyResult
    /\ UNCHANGED <<projectRoot, removeProjectNameFromPath, autoBackup, fsVars, now,
                   pc, loopVars, total, proc,
                   auxVars>>

\* applyGeneratedFiles has returned or thrown: postgresqlTool.js 540-590,
\* executeTool.js 262-275
ApplyDone ==
    /\ proc = "running"
    /\ call.phase = "apply"
    /\ pc = "idle"
    /\ applyResult.kind # "none"
    /\ LET thrown == applyResult.kind # "return"
           error == Failure("Error", IF applyResult.kind = "throw-unset"
                                     THEN "Project root is not set"
                                     ELSE "Invalid project root")
       IN call' = [call EXCEPT
                      !.phase = "idle",
                      !.failure = IF thrown THEN "precondition" ELSE "",
                      !.failedAt = IF thrown THEN "apply" ELSE "",
                      !.result =
                          IF call.tool = "postgresql"
                          THEN IF thrown
                               THEN formatCombinedResponse(
                                        TRUE, 0, <<error.message>>)
                               ELSE formatCombinedResponse(
                                        TRUE, applyResult.count, applyResult.errors)
                          ELSE IF thrown THEN CallToolCatch(error)
                               ELSE Response("text", "completed", "",
                                             applyResult.count, <<>>)]
    /\ UNCHANGED <<projectRoot, removeProjectNameFromPath, autoBackup, fsVars, now,
                   pc, loopVars, applyResult, total, proc,
                   auxVars>>

(***************************************************************************)
(* PostgreSQLMCPServer: the CallTool handler (src/server.js 63-96).        *)
(***************************************************************************)
\* a run() that attaches the transport before the health check is answered
AttachedEarly == boot.phase \in {"health", "listening"}

\* server.js 113-117: server.connect(transport) comes after the awaited
\* testConnection(); requests reach the handlers through the transport only
Attached == boot.phase = "listening"

CallToolRequest(name, args) ==
    /\ proc = "running"
    /\ call.via = "rpc"
    /\ Attached
    /\ call.phase = "idle"
    /\ LET started == Started(name, args)
       IN call' =
            CASE name = "create_postgresql_integration_plan" ->
                    [started EXCEPT !.tool = "plan", !.phase = "plan",
                                    !.trace = <<"createPlan">>]
              [] name = "execute_postgresql_integration" ->
                    [started EXCEPT !.tool = "execute", !.phase = "execute",
                                    !.trace = <<"executePlan">>]
              [] name = "get_postgresql_integration_status" ->
                    [started EXCEPT !.tool = "status",
                                    !.result = Response("text", "status", "", 0, <<>>)]
              [] OTHER ->
                    [started EXCEPT
                        !.failure = "unknown-tool",
                        !.result = CallToolCatch(
                                       Failure("McpError", "MethodNotFound"))]
    /\ UNCHANGED <<projectRoot, removeProjectNameFromPath, autoBackup, fsVars, now,
                   pc, loopVars, applyResult, total, proc,
                   auxVars>>

\* server.js 104-107, index.js 37-40: SIGINT ends the process
Sigint ==
    /\ proc = "running"
    /\ proc' = "exit-0"
    /\ UNCHANGED <<projectRoot, removeProjectNameFromPath, autoBackup, fsVars, now,
                   pc, loopVars, applyResult, total, call,
                   auxVars>>

vars == <<projectRoot, removeProjectNameFromPath, autoBackup, files, dirs, backups,
          now, pc, filesApplied, appliedFilesList, errors, applyResult, last,
          nDesc, nDoomed, allValid, total, proc, call, probe, peer, remote, batch,
          boot, fix, mergeCall>>

\* a FileService driven through its own methods, with backups on or off
Init ==
    /\ InitFS /\ InitFileService /\ proc = "running" /\ call = ApiUse
    /\ probe = NoProbe /\ peer = NoPeer /\ remote = NoRemote /\ batch = <<>>
    /\ boot = NoBoot
    /\ fix = NoFix
    /\ mergeCall = NoMerge

Next ==
    \/ \E root \in RootChoices : setProjectRoot(root)
    \/ \E remove \in BOOLEAN : setRemoveProjectNameFromPath(remove)
    \/ \E ensureOk \in BOOLEAN : ApplyStart(ensureOk)
    \/ \E file \in Descriptors, fault \in Faults : ProcessFile(file, fault)
    \/ ApplyReturn
    \/ Tick

Spec == Init /\ [][Next]_vars

(***************************************************************************)
(* The tools: a process that owns a PostgreSQLTool and calls it directly,  *)
(* or the RPC server with its three registered tools.                      *)
(***************************************************************************)
ToolInit ==
    /\ InitFS
    /\ InitFileService
    /\ proc = "running"
    /\ call \in {NoCall("direct"), NoCall("rpc")}
    /\ probe = NoProbe
    /\ peer = NoPeer
    /\ remote = NoRemote
    /\ batch = <<>>
    /\ boot = Serving
    /\ fix = NoFix
    /\ mergeCall = NoMerge

ToolNext ==
    \/ \E args \in ToolArgs : PostgreSQLToolExecute(args)
    \/ \E name \in ToolNames, args \in ToolArgs : CallToolRequest(name, args)
    \/ \E reply \in RemoteReplies, planId \in PlanIds : PlanResponse(reply, planId)
    \/ \E reply \in RemoteReplies, generatedFiles \in BOOLEAN :
          ExecutionResponse(reply, generatedFiles)
    \/ \E ensureOk \in BOOLEAN : ApplyStart(ensureOk)
    \/ \E file \in GeneratedFiles, fault \in Faults : ProcessFile(file, fault)
    \/ ApplyReturn
    \/ ApplyDone
    \/ Tick
    \/ Sigint

ToolSpec == ToolInit /\ [][ToolNext]_vars

(***************************************************************************)
(* The combined tool called again and again by its owner, in a project     *)
(* that is in order and with a remote service that answers.                *)
(***************************************************************************)
GenerateInit ==
    /\ InitFS
    /\ InitFileService
    /\ proc = "running"
    /\ call = NoCall("direct")
    /\ probe = NoProbe
    /\ peer = NoPeer
    /\ remote = NoRemote
    /\ batch = <<>>
    /\ boot = NoBoot
    /\ fix = NoFix
    /\ mergeCall = NoMerge

\* the phases after the first, and the apply they lead to
GenerateSteps ==
    \/ PlanResponse("ok", "plan-1")
    \/ ExecutionResponse("ok", TRUE)
    \/ ApplyStart(TRUE)
    \/ \E file \in GenerateFiles : ProcessFile(file, "ok")
    \/ ApplyReturn
    \/ ApplyDone

GenerateNext ==
    \/ \E args \in GenerateArgs : PostgreSQLToolExecute(args)
    \/ GenerateSteps

GenerateSpec == GenerateInit /\ [][GenerateNext]_vars

(***************************************************************************)
(* Two invocations of the combined tool in one process: the second runs    *)
(* while the first waits for the remote service or for the disk.           *)
(***************************************************************************)
\* postgresqlTool.js 415-497 of the second invocation: path validation, the
\* two setters and the request of its phase 1
PeerExecute(args) ==
    /\ proc = "running"
    /\ call.tool = "postgresql"
    /\ call.phase \in {"plan", "execute", "apply"}
    /\ peer.phase = "idle"
    /\ peer.calls < MaxPeerCalls
    /\ ValidProjectPath(args.projectPath)
    /\ projectRoot' = args.projectPath
    /\ removeProjectNameFromPath' = RemovePreference(args)
    /\ peer' = [phase |-> "plan", calls |-> peer.calls + 1]
    /\ UNCHANGED <<autoBackup, fsVars, now, pc, loopVars, applyResult, total, proc,
                   call, probe, remote, batch, boot, fix, mergeCall>>

\* the answers to the second invocation's createPlan and executePlan:
\* postgresqlTool.js 493-532 and 592-602, with applyToProject false
PeerResponse(reply) ==
    /\ proc = "running"
    /\ peer.phase \in {"plan", "execute"}
    /\ peer' = [peer EXCEPT !.phase = IF makeRequest(reply).ok /\ peer.phase = "plan"
                                      THEN "execute" ELSE "idle"]
    /\ UNCHANGED <<projectRoot, removeProjectNameFromPath, autoBackup, fsVars, now,
                   pc, loopVars, applyResult, total, proc, call, probe, remote,
                   batch, boot, fix, mergeCall>>

ConcurrentNext ==
    \/ \E args \in ConcurrentArgs : PostgreSQLToolExecute(args)
    \/ GenerateSteps
    \/ \E args \in PeerArgs : PeerExecute(args)
    \/ \E reply \in {"ok", "refused"} : PeerResponse(reply)

ConcurrentSpec == GenerateInit /\ [][ConcurrentNext]_vars

(***************************************************************************)
(* McpService used by its owner: the health check of server.js 113 and of  *)
(* test-combined-tool.js 31, and the two plan calls.                       *)
(***************************************************************************)
RemoteInit ==
    /\ InitFS
    /\ InitFileService
    /\ proc = "running"
    /\ call = ApiUse
    /\ probe = NoProbe
    /\ peer = NoPeer
    /\ remote = NoRemote
    /\ batch = <<>>
    /\ boot = NoBoot
    /\ fix = NoFix
    /\ mergeCall = NoMerge

fileServiceVars ==
    <<projectRoot, removeProjectNameFromPath, autoBackup, fsVars, now, pc,
      loopVars, applyResult, total>>

\* mcpService.js 12-14
setCurrentRequestId(requestId) ==
    /\ remote' = [remote EXCEPT !.currentRequestId = requestId]
    /\ UNCHANGED <<fileServiceVars, proc, call, probe, peer, batch, boot, fix, mergeCall>>

\* the last call, with the X-Request-ID it sent and what it came to
Exchanged(endpoint, reply, outcome) ==
    [currentRequestId |-> remote.currentRequestId, endpoint |-> endpoint,
     requestId |-> remote.currentRequestId, reply |-> reply,
     ok |-> outcome.ok, message |-> outcome.message]

\* mcpService.js 16-30
TestConnection(reply) ==
    /\ remote' = Exchanged("/health", reply, testConnection(reply))
    /\ UNCHANGED <<fileServiceVars, proc, call, probe, peer, batch, boot, fix, mergeCall>>

\* mcpService.js 32-57
CreatePlan(reply) ==
    /\ reply # "down"
    /\ remote' = Exchanged("/plan/create", reply, RemoteCall(reply))
    /\ UNCHANGED <<fileServiceVars, proc, call, probe, peer, batch, boot, fix, mergeCall>>

\* mcpService.js 59-85
ExecutePlan(reply) ==
    /\ reply # "down"
    /\ remote' = Exchanged("/plan/execute", reply, RemoteCall(reply))
    /\ UNCHANGED <<fileServiceVars, proc, call, probe, peer, batch, boot, fix, mergeCall>>

RemoteNext ==
    \/ \E requestId \in RequestIds : setCurrentRequestId(requestId)
    \/ \E reply \in ReachableReplies \cup UnreachableReplies : TestConnection(reply)
    \/ \E reply \in ReachableReplies \cup UnreachableReplies : CreatePlan(reply)
    \/ \E reply \in ReachableReplies \cup UnreachableReplies : ExecutePlan(reply)

RemoteSpec == RemoteInit /\ [][RemoteNext]_vars

(***************************************************************************)
(* One applyGeneratedFiles call on a batch of categories of descriptors.   *)
(***************************************************************************)
\* the descriptors of these batches: one that can be applied or hit by an
\* I/O fault, one without content, one that leaves the project
BatchFiles ==
    { Desc(PlainPath, "create", <<"new">>, ""),
      Desc(PlainPath, "modify", <<>>, ""),
      Desc(<<"..", SL, "etc", SL, "passwd">>, "modify", <<"new">>, "") }

SeqsUpTo(S, n) == UNION { [1..k -> S] : k \in 0..n }

\* the loops taken from the last category to the first
RECURSIVE FlattenBackwards(_)
FlattenBackwards(generatedFiles) ==
    IF generatedFiles = <<>> THEN <<>>
    ELSE FlattenBackwards(Tail(generatedFiles)) \o Head(generatedFiles)

\* lines 576-580: for (const category of generatedFiles)
\*                  for (const file of category.files)
RECURSIVE Flatten(_)
Flatten(generatedFiles) ==
    IF generatedFiles = <<>> THEN <<>>
    ELSE Head(generatedFiles) \o Flatten(Tail(generatedFiles))

Batches ==
    { b \in SeqsUpTo(SeqsUpTo(BatchFiles, MaxFiles), MaxCategories) :
          Len(Flatten(b)) <= MaxFiles }

BatchInit ==
    /\ InitFS
    /\ InitFileService
    /\ proc = "running"
    /\ call = ApiUse
    /\ probe = NoProbe
    /\ peer = NoPeer
    /\ remote = NoRemote
    /\ batch \in Batches
    /\ boot = NoBoot
    /\ fix = NoFix
    /\ mergeCall = NoMerge

\* applyGeneratedFiles(batch) is called
BatchStart(ensureOk) ==
    /\ applyResult.kind = "none"
    /\ nDesc = 0
    /\ ApplyStart(ensureOk)

\* the loop body for the next descriptor of the batch
BatchProcess(fault) ==
    /\ nDesc < Len(Flatten(batch))
    /\ ProcessFile(Flatten(batch)[nDesc + 1], fault)

\* the loops are done
BatchReturn ==
    /\ nDesc = Len(Flatten(batch))
    /\ ApplyReturn

BatchNext ==
    \/ \E root \in RootChoices : applyResult.kind = "none" /\ setProjectRoot(root)
    \/ \E ensureOk \in BOOLEAN : BatchStart(ensureOk)
    \/ \E fault \in Faults : BatchProcess(fault)
    \/ BatchReturn
    \/ Tick

\* the steps of BatchProcess, by their guard and their count
LoopStep ==
    /\ pc = "loop"
    /\ proc = "running"
    /\ total < MaxFiles
    /\ nDesc < Len(Flatten(batch))
    /\ nDesc' = nDesc + 1

\* the event loop resumes the call after each await: the loop body and the
\* return are taken when they are ready
BatchSpec ==
    BatchInit /\ [][BatchNext]_vars /\ WF_nDesc(LoopStep) /\ WF_vars(BatchReturn)

(***************************************************************************)
(* The status probe over project trees of every shape.                     *)
(***************************************************************************)
JavaDir == <<SL, "proj", SL, "src", SL, "main", SL, "java">>
ResourcesDir == <<SL, "proj", SL, "src", SL, "main", SL, "resources">>

\* the files a project may hold, each with the contents it may have
ProbeFileChoices ==
    << [path |-> <<SL, "proj", SL, "pom.xml">>,
        contents |-> { <<"spring-boot-starter-data-jpa">>,
                       <<"spring-boot-starter-data-jpa", "postgresql">> }],
       [path |-> <<SL, "proj", SL, "build.gradle">>,
        contents |-> { <<"spring-boot-starter-data-jpa", "postgresql">> }],
       [path |-> ResourcesDir \o <<SL, "application.yml">>,
        contents |-> { <<"datasource", "postgresql">> }],
       [path |-> ResourcesDir \o <<SL, "application.properties">>,
        contents |-> { <<"datasource", "postgresql">> }],
       [path |-> JavaDir \o <<SL, "User.java">>,
        contents |-> { <<"@Entity">>, <<"package p;", "import a;", "@Entity">> }],
       [path |-> JavaDir \o <<SL, "repository", SL, "UserRepository.java">>,
        contents |-> { <<"Repository">> }],
       [path |-> JavaDir \o <<SL, "UserController.java">>,
        contents |-> { <<"@RestController", "@Service">> }] >>

\* every choice of present files, each absent or with one of its contents
Option(i) == {<<"absent">>} \cup ProbeFileChoices[i].contents

ProbeTrees ==
    { t \in Option(1) \X Option(2) \X Option(3) \X Option(4) \X Option(5)
                \X Option(6) \X Option(7) :
          Cardinality({i \in DOMAIN t : t[i] # <<"absent">>}) <= MaxTreeFiles }

TreeFiles(t) ==
    LET present == {i \in DOMAIN t : t[i] # <<"absent">>}
        paths == {ProbeFileChoices[i].path : i \in present}
    IN [q \in paths |->
           t[CHOOSE i \in present : ProbeFileChoices[i].path = q]]

TreeDirs(fls) ==
    {ProjRoot, <<SL, "ro">>} \cup UNION {Ancestors(Dirname(q)) : q \in DOMAIN fls}

\* what the environment may refuse to read
UnreadableChoices ==
    { {}, { <<SL, "proj", SL, "pom.xml">> },
      { ResourcesDir \o <<SL, "application.yml">> },
      { JavaDir },
      { JavaDir \o <<SL, "User.java">> } }

\* what readdir listed before an unreadable source file
EarlyChoices(unreadable) ==
    IF JavaDir \o <<SL, "User.java">> \in unreadable
    THEN { {}, { JavaDir \o <<SL, "UserController.java">> } }
    ELSE { {} }

ProbePaths == {NoPath, <<".">>, ProjRoot}

ProbeInit ==
    /\ InitFileService
    /\ now = 0
    /\ backups = << >>
    /\ \E t \in ProbeTrees :
          /\ files = TreeFiles(t)
          /\ dirs = TreeDirs(TreeFiles(t))
    /\ proc = "running"
    /\ call = ApiUse
    /\ probe = NoProbe
    /\ peer = NoPeer
    /\ remote = NoRemote
    /\ batch = <<>>
    /\ boot = NoBoot
    /\ fix = NoFix
    /\ mergeCall = NoMerge

\* one call of checkIntegrationStatus(projectPath)
StatusProbe(projectPath, unreadable, early) ==
    /\ proc = "running"
    /\ pc = "idle"
    /\ probe' = [done |-> TRUE, path |-> projectPath, root |-> projectRoot,
                 unreadable |-> unreadable, early |-> early,
                 status |-> checkIntegrationStatus(projectPath, projectRoot, files,
                                                   dirs, unreadable, early),
                 before |-> <<files, dirs, backups>>]
    /\ UNCHANGED <<projectRoot, removeProjectNameFromPath, autoBackup, fsVars, now,
                   pc, loopVars, applyResult, total, proc, call, peer, remote,
                   batch, boot, fix, mergeCall>>

ProbeNext ==
    \/ \E projectPath \in ProbePaths, unreadable \in UnreadableChoices :
          \E early \in EarlyChoices(unreadable) :
              StatusProbe(projectPath, unreadable, early)
    \/ \E root \in {ProjRoot} : setProjectRoot(root)

ProbeSpec == ProbeInit /\ [][ProbeNext]_vars

(***************************************************************************)
(* Properties of FileService.applyGeneratedFiles, checked under Spec.      *)
(***************************************************************************)
BackupOps(ops) == {i \in DOMAIN ops : ops[i].op = "backup"}
WriteOps(ops) == {i \in DOMAIN ops : ops[i].op = "write"}

\* the descriptor processed last got as far as the backup step: its path
\* passed the security check and its directory was made
ReachedBackupStep == last.outcome # "none" /\ last.error \notin {"security", "mkdir"}

BackupFault == last.fault \in {"backup-mkdir", "backup-copy"}

\* C1: whatever path a descriptor carries (relative, absolute, with '..', or
\* into a sibling directory whose name starts with the root's name), every
\* directory, backup and file its processing creates lies inside the project
\* root, and a descriptor whose resolved path lies outside the root is
\* rejected with an error and touches nothing.
C1_Containment ==
    last.outcome # "none" =>
        /\ \A i \in DOMAIN last.ops : Inside(last.ops[i].at, OnDisk(last.root))
        /\ ~Inside(last.fullPath, OnDisk(last.root)) =>
               last.outcome = "error" /\ last.ops = <<>>

\* C2 as stated: with backups enabled, every modify or append descriptor
\* whose target exists gets exactly one backup, made before the mutating
\* write; a create descriptor whose target does not exist gets none.
\* (Read for the descriptors that reach the backup step.)
C2_AsStated ==
    (autoBackup /\ ReachedBackupStep) =>
        /\ (last.file.action \in {"modify", "append"} /\ last.existed) =>
               /\ Cardinality(BackupOps(last.ops)) = 1
               /\ \A b \in BackupOps(last.ops), w \in WriteOps(last.ops) : b < w
        /\ (last.file.action = "create" /\ ~last.existed) =>
               BackupOps(last.ops) = {}

\* C2, amended: with backups enabled, a modify or append descriptor whose
\* target exists and which reaches the backup step gets exactly one backup,
\* holding the target's content and made before the mutating write, unless
\* the backup step itself fails: then no backup is made and the write still
\* goes ahead.  A create descriptor whose target does not exist gets none.
C2_BackupBeforeMutate ==
    (autoBackup /\ last.outcome # "none") =>
        /\ (last.file.action \in {"modify", "append"} /\ last.existed
               /\ ReachedBackupStep /\ ~BackupFault) =>
               /\ Cardinality(BackupOps(last.ops)) = 1
               /\ \A b \in BackupOps(last.ops) : last.ops[b].content = last.before
               /\ \A b \in BackupOps(last.ops), w \in WriteOps(last.ops) : b < w
        /\ (last.file.action \in {"modify", "append"} /\ last.existed
               /\ ReachedBackupStep /\ BackupFault) =>
               /\ BackupOps(last.ops) = {}
               /\ last.content # <<>> => last.outcome = "applied"
        /\ (last.file.action = "create" /\ ~last.existed) =>
               BackupOps(last.ops) = {}

\* a modify descriptor was backed up once and then written
C2_Witness ==
    /\ autoBackup
    /\ last.file.action = "modify"
    /\ last.existed
    /\ last.outcome = "applied"
    /\ Cardinality(BackupOps(last.ops)) = 1
    /\ Cardinality(WriteOps(last.ops)) = 1

\* C3: in a batch of N descriptors, all with content and a known action, of
\* which exactly one fails (its target is unwritable or its path leaves the
\* project root), the call returns count = N - 1 and exactly one error: the
\* descriptors after the failing one are processed all the same.
C3_ErrorIsolation ==
    (pc = "idle" /\ applyResult.kind = "return" /\ allValid /\ nDoomed = 1) =>
        /\ applyResult.count = nDesc - 1
        /\ Len(applyResult.errors) = 1

\* the replace descriptor whose target existed, with backups enabled
ReplaceOfExisting ==
    /\ autoBackup
    /\ last.outcome # "none"
    /\ last.file.action = "modify"
    /\ last.file.mergeStrategy = "replace"
    /\ last.file.content # <<>>
    /\ last.existed

\* the backup file this descriptor's processing names
LastBackupKey == BackupKey(last.root, last.corrected, last.ts)

RootUsable ==
    /\ projectRoot # NoRoot
    /\ OnDisk(projectRoot) \in dirs
    /\ OnDisk(projectRoot) \notin DOMAIN files
    /\ OnDisk(projectRoot) \notin ReadOnlyDirs

\* C5: while the project root is unset, missing, not a directory or not
\* writable, applyGeneratedFiles throws: no step creates or changes a file,
\* a directory or a backup, and the loop over the descriptors is never
\* entered.
C5_FailFast ==
    [][ ~RootUsable =>
            /\ UNCHANGED <<files, dirs, backups>>
            /\ pc' = "idle"
            /\ applyResult' # applyResult =>
                   applyResult'.kind \in {"throw-unset", "throw-invalid"} ]_vars

\* applyGeneratedFiles has thrown for a read-only root, the disk as it was
C5_Witness ==
    /\ applyResult.kind = "throw-invalid"
    /\ applyResult.root = ReadOnlyRoot
    /\ projectRoot = ReadOnlyRoot
    /\ <<files, dirs, backups>> = <<BaseFiles, BaseDirs, << >> >>

(***************************************************************************)
(* Properties of the tools, checked under ToolSpec.                        *)
(***************************************************************************)
Phases == <<"validate", "createPlan", "executePlan", "apply">>

IsPrefix(s, t) == Len(s) <= Len(t) /\ SubSeq(t, 1, Len(s)) = s

\* the invocation was reported to its caller as a failure
ReportedAsFailure ==
    \/ call.result.kind \in {"thrown", "mcp-error"}
    \/ call.result.kind = "text" /\ call.result.heading = "failed"

Combined == call.tool = "postgresql"

\* C6: when the apply phase of the combined tool fails its precondition,
\* the invocation is reported as a failure and not as a success.
C6_PreconditionSurfaced ==
    (Combined /\ call.phase = "idle" /\ call.failure = "precondition") =>
        ReportedAsFailure

\* C7: the combined tool runs path validation, create-plan, execute-plan
\* and apply in that order, execute-plan carries the planId create-plan
\* returned, and when path validation or a remote phase fails no later
\* phase runs, the disk is as the invocation found it and the invocation is
\* reported as a failure.
C7_PhaseOrdering ==
    Combined =>
        /\ IsPrefix(call.trace, Phases)
        /\ Len(call.trace) >= 3 =>
               call.planId \in PlanIds /\ call.sentPlanId = call.planId
        /\ call.failure \in {"invalid-path", "remote", "connectivity"} =>
               /\ call.phase = "idle"
               /\ call.trace[Len(call.trace)] = call.failedAt
               /\ call.failedAt \in {"validate", "createPlan", "executePlan"}
               /\ <<files, dirs, backups>> = call.snap
               /\ ReportedAsFailure

\* all four phases ran, on the second plan, and a file was applied
C7_Witness ==
    /\ Combined
    /\ call.phase = "idle"
    /\ call.trace = Phases
    /\ call.sentPlanId = "plan-2"
    /\ call.result.filesApplied >= 1

\* C8: with applyToProject = false the combined tool performs both remote
\* phases and returns its text result, applyGeneratedFiles is never called
\* and the disk stays as the invocation found it.
C8_NoApply ==
    (Combined /\ ~call.args.applyToProject) =>
        /\ call.phase # "apply"
        /\ "apply" \notin Range(call.trace)
        /\ <<files, dirs, backups>> = call.snap
        /\ (call.phase = "idle" /\ call.failure = "") =>
               /\ call.trace = <<"validate", "createPlan", "executePlan">>
               /\ call.result = formatCombinedResponse(FALSE, 0, <<>>)

\* both remote phases answered and the text result came back without apply
C8_Witness ==
    /\ Combined
    /\ ~call.args.applyToProject
    /\ call.phase = "idle"
    /\ call.trace = <<"validate", "createPlan", "executePlan">>
    /\ call.result.kind = "text"
    /\ call.result.heading = "completed"

\* C9: the RPC handler dispatches generate_postgresql_integration and
\* get_postgresql_integration_status to their implementations, which give
\* a text block, and answers every other tool name with method-not-found
\* without running a tool.
C9_RpcSurface ==
    (call.via = "rpc" /\ call.name # "" /\ call.phase = "idle") =>
        IF call.name \in {"generate_postgresql_integration",
                          "get_postgresql_integration_status"}
        THEN /\ call.tool # "none"
             /\ call.failure = "" => call.result.kind = "text"
        ELSE /\ call.tool = "none"
             /\ call.result.kind = "mcp-error"
             /\ call.result.code = "MethodNotFound"

Probed == probe.done

\* the directory the probe looked at, as the file system sees it
ProbedDir == OnDisk(IF probe.path # NoPath THEN probe.path ELSE probe.root)

ProbedFiles == probe.before[1]
ProbedDirs == probe.before[2]

\* p of the probed directory cannot be read: missing, or refused
Unread(p) ==
    LET q == ProbedDir \o <<SL>> \o p
    IN q \notin DOMAIN ProbedFiles \/ q \in probe.unreadable

NoBuildManifest == Unread(<<"pom.xml">>) /\ Unread(<<"build.gradle">>)

NoConfigFile ==
    /\ Unread(<<"src", SL, "main", SL, "resources", SL, "application.yml">>)
    /\ Unread(<<"src", SL, "main", SL, "resources", SL, "application.properties">>)

NoSourceTree ==
    LET d == ProbedDir \o <<SL, "src", SL, "main", SL, "java">>
    IN d \notin ProbedDirs \/ d \in probe.unreadable

\* no file under the probed directory holds a marker
NoMarkers ==
    \A q \in DOMAIN ProbedFiles :
        StartsWith(q, ProbedDir \o <<SL>>) =>
            Range(ProbedFiles[q]) \cap
                {"spring-boot-starter-data-jpa", "postgresql", "datasource",
                 "@Entity", "Repository", "@Service", "@RestController"} = {}

AllFalse(c) ==
    /\ ~c.dependencies /\ ~c.configuration /\ ~c.entities
    /\ ~c.repositories /\ ~c.services /\ ~c.controllers

\* C11: a status probe of a project directory, whatever is missing or
\* unreadable in it, returns a status without throwing and leaves the tree as
\* it was; a component whose file is missing or unreadable is reported false,
\* and a directory without markers is reported not configured with all six
\* components false.
C11_ProbeTotal ==
    (Probed /\ (probe.path # NoPath \/ probe.root # NoRoot)) =>
        /\ ~probe.status.threw
        /\ <<files, dirs, backups>> = probe.before
        /\ NoBuildManifest =>
               ~probe.status.components.dependencies /\ ~probe.status.configured
        /\ NoConfigFile =>
               ~probe.status.components.configuration /\ ~probe.status.configured
        /\ NoSourceTree =>
               /\ ~probe.status.components.entities
               /\ ~probe.status.components.repositories
               /\ ~probe.status.components.services
               /\ ~probe.status.components.controllers
        /\ NoMarkers => ~probe.status.configured /\ AllFalse(probe.status.components)

\* a probe of a tree whose build manifest is there but refuses to be read,
\* with the entity of the source tree found
C11_Witness ==
    /\ Probed
    /\ probe.path = ProjRoot
    /\ <<SL, "proj", SL, "pom.xml">> \in DOMAIN ProbedFiles
    /\ <<SL, "proj", SL, "pom.xml">> \in probe.unreadable
    /\ ~probe.status.threw
    /\ ~probe.status.components.dependencies
    /\ probe.status.components.entities

(***************************************************************************)
(* Properties of repeated and combined descriptors, checked under Spec.    *)
(***************************************************************************)
IsReplace(file) == file.action = "modify" /\ file.mergeStrategy = "replace"

\* this step applied the descriptor that the step before it had applied
AppliedAgain ==
    /\ nDesc' = nDesc + 1
    /\ last.outcome = "applied"
    /\ last'.outcome = "applied"
    /\ last'.file = last.file
    /\ last'.fullPath = last.fullPath

\* C12: when a modify descriptor with strategy replace is applied and then
\* applied again, the target holds after the second application what it held
\* after the first, the descriptor's corrected content, whether or not the
\* target existed at the start.
C12_Step ==
    (AppliedAgain /\ IsReplace(last.file)) =>
        /\ files'[last.fullPath] = files[last.fullPath]
        /\ files'[last.fullPath] = last.content

C12_ReplaceIdempotent == [][C12_Step]_vars

\* the second of two applications of one replace descriptor whose target did
\* not exist before the first
C12_Witness ==
    /\ IsReplace(last.file)
    /\ last.file.path = FreshPath
    /\ last.outcome = "applied"
    /\ nDesc = 2
    /\ last.existed
    /\ last.before = last.content
    /\ files[last.fullPath] = last.content

(***************************************************************************)
(* Properties of the combined tool's preferences and project path,         *)
(* checked under GenerateSpec.                                             *)
(***************************************************************************)
\* a descriptor of the invocation in flight has just been processed
InApply == call.tool = "postgresql" /\ call.phase = "apply" /\ last.outcome # "none"

\* preferences.mergeStrategy with the default of the input schema
PreferredStrategy ==
    IF call.args.mergeStrategy = "undefined" THEN "smart"
    ELSE call.args.mergeStrategy

\* C13: when the apply of an invocation merges a modify descriptor into an
\* existing file, the file then holds the merge of its old content and the
\* descriptor's content under the strategy of the invocation's
\* preferences.mergeStrategy.
C13_PreferredStrategyUsed ==
    (InApply /\ last.outcome = "applied" /\ last.file.action = "modify"
       /\ last.existed) =>
        files[last.fullPath] =
            mergeFileContent(last.before, last.content, last.corrected,
                             PreferredStrategy)

\* the descriptor processed last, corrected as the invocation asked
AskedCorrection ==
    CorrectDescriptor(last.file, call.args.removeProjectNameFromPath # "false")

\* C14: during an invocation's apply the package-name correction is on when
\* preferences.removeProjectNameFromPath is absent or true and off when it
\* is false, whatever earlier invocations chose: every path and content is
\* used corrected in the first case and as generated in the second.
C14_RemovePreference ==
    InApply =>
        /\ removeProjectNameFromPath = (call.args.removeProjectNameFromPath # "false")
        /\ last.corrected = AskedCorrection.path
        /\ last.content = AskedCorrection.content
        /\ call.args.removeProjectNameFromPath = "false" =>
               last.corrected = last.file.path /\ last.content = last.file.content

\* an invocation that leaves the preference out corrects a package path,
\* after one with the preference false wrote the same descriptor as generated
C14_Witness ==
    /\ InApply
    /\ call.args.removeProjectNameFromPath = "undefined"
    /\ last.file.path = PackagePath
    /\ last.outcome = "applied"
    /\ last.corrected # PackagePath
    /\ Resolve(ProjRoot, PackagePath) \in DOMAIN files

\* C15: whatever projectPath an invocation was given (none, '.', another
\* relative path, an absolute one), the root its apply works under is an
\* absolute path of an existing directory, and a plain relative descriptor
\* inside the project is not rejected by the containment check.
C15_RootAbsolute ==
    (InApply /\ last.file.path = PlainPath) =>
        /\ IsAbsolute(last.root)
        /\ OnDisk(last.root) \in dirs
        /\ last.error # "security"

(***************************************************************************)
(* Properties of the backups and of the loop of one applyGeneratedFiles    *)
(* call, checked under Spec.                                               *)
(***************************************************************************)
\* this step processes the descriptor after one that made a backup in the
\* same call
AfterBackup ==
    /\ pc = "loop"
    /\ nDesc' = nDesc + 1
    /\ BackupOps(last.ops) # {}

\* C16: within one call with backups on, a target that was backed up is not
\* backed up again when a later descriptor names the same file, and the
\* backup file made for one descriptor is not overwritten while a later
\* descriptor of the call is processed.
C16_Step ==
    AfterBackup =>
        /\ backups'[LastBackupKey] = backups[LastBackupKey]
        /\ last'.fullPath = last.fullPath => BackupOps(last'.ops) = {}

C16_BackupOnce == [][C16_Step]_vars

(***************************************************************************)
(* Properties of McpService, checked under RemoteSpec.                     *)
(***************************************************************************)
\* the text of the message starts like one of the messages for a service
\* that cannot be reached
ConnectivityMessage(message) ==
    /\ message # <<>>
    /\ message[1] \in {"Cannot connect to MCP server", "Cannot connect to MCP server at ",
                       "Request timeout", "request to url failed, reason: ENOTFOUND"}

\* C17: every remote call (health check, create-plan, execute-plan) to a
\* service that is unreachable or times out fails with a connectivity
\* message, and every call that a reachable service rejects fails with a
\* message that is not a connectivity message.
C17_Distinguishable ==
    (remote.endpoint # "" /\ ~remote.ok) =>
        (ConnectivityMessage(remote.message) <=> remote.reply \in UnreachableReplies)

(***************************************************************************)
(* Properties of two invocations of the combined tool that overlap,        *)
(* checked under ConcurrentSpec.                                           *)
(***************************************************************************)
\* the project root the invocation in flight resolved (postgresqlTool.js 426)
ResolvedRoot ==
    IF call.args.projectPath # NoPath THEN call.args.projectPath
    ELSE defaultProjectDirectory

\* C18: however a second invocation for another project interleaves with an
\* invocation, every directory, backup and file that the invocation's apply
\* creates lies under the root the invocation itself resolved.
C18_OwnRoot ==
    InApply =>
        /\ last.root = ResolvedRoot
        /\ \A i \in DOMAIN last.ops : Inside(last.ops[i].at, OnDisk(ResolvedRoot))

(***************************************************************************)
(* Properties of one applyGeneratedFiles call on a batch, checked under    *)
(* BatchSpec.                                                              *)
(***************************************************************************)
\* the files of all categories before category c
RECURSIVE FilesBefore(_)
FilesBefore(c) == IF c = 1 THEN 0 ELSE FilesBefore(c - 1) + Len(batch[c - 1])

\* the n-th descriptor of the batch, counting category by category
NthDescriptor(n) ==
    LET c == CHOOSE c \in DOMAIN batch :
                 FilesBefore(c) < n /\ n <= FilesBefore(c) + Len(batch[c])
    IN batch[c][n - FilesBefore(c)]

\* a step of the loop takes the next descriptor of the batch, finishes its
\* file operations and records its corrected path if it was applied; the
\* call returns only after the last descriptor, with what was recorded
C19_Step ==
    /\ nDesc' = nDesc + 1 =>
          /\ last'.file = NthDescriptor(nDesc')
          /\ \A i \in DOMAIN last'.ops : last'.ops[i].op \in {"mkdir", "backup", "write"}
          /\ appliedFilesList' =
                 IF last'.outcome = "applied"
                 THEN Append(appliedFilesList, last'.corrected)
                 ELSE appliedFilesList
          /\ Len(errors') = Len(errors) + (IF last'.outcome = "error" THEN 1 ELSE 0)
    /\ (pc = "loop" /\ pc' # "loop") =>
          /\ nDesc = Len(Flatten(batch))
          /\ applyResult'.kind = "return"
          /\ applyResult'.files = appliedFilesList
          /\ applyResult'.count = Len(appliedFilesList)
          /\ applyResult'.errors = errors
    /\ nDesc' \in {nDesc, nDesc + 1} \/ (pc = "idle" /\ nDesc' = 0)

\* C19: once the precondition of applyGeneratedFiles has passed, the call
\* returns a result and never throws, whatever I/O faults hit single files;
\* before that it has processed every descriptor of the batch once, category
\* by category and in descriptor order, and the files list it returns holds
\* the corrected paths of the applied descriptors in that order.
C19_RunToCompletion ==
    /\ [][C19_Step]_vars
    /\ (pc = "loop") ~> (pc = "idle" /\ applyResult.kind = "return")

\* a batch of two categories returned after its first descriptor failed on a
\* write and its second was applied
C19_Witness ==
    /\ Len(batch) = 2
    /\ applyResult.kind = "return"
    /\ Len(applyResult.errors) = 1
    /\ applyResult.errors[1].error = "write"
    /\ applyResult.files = <<PlainPath>>

(***************************************************************************)
(* Properties of the action dispatch, checked under Spec.                  *)
(***************************************************************************)
\* the strategy a descriptor asks for
DescriptorStrategy ==
    IF last.file.mergeStrategy = "" THEN "smart" ELSE last.file.mergeStrategy

\* C20: after a descriptor with non-empty content was applied, its target
\* holds: for create the content; for append the prior content followed by
\* the content, or the content alone if the target was absent; for modify
\* the content if the target was absent, and otherwise the merge of the
\* prior content and the content under the descriptor's strategy, smart
\* when it names none.
C20_ActionDispatch ==
    (last.outcome = "applied" /\ last.content # <<>>) =>
        /\ last.file.action = "create" => files[last.fullPath] = last.content
        /\ (last.file.action = "append" /\ last.existed) =>
               files[last.fullPath] = last.before \o last.content
        /\ (last.file.action \in {"append", "modify"} /\ ~last.existed) =>
               files[last.fullPath] = last.content
        /\ (last.file.action = "modify" /\ last.existed) =>
               files[last.fullPath] =
                   mergeFileContent(last.before, last.content, last.corrected,
                                    DescriptorStrategy)

\* an append whose target did not exist left the content alone in it
C20_Witness ==
    /\ last.outcome = "applied"
    /\ last.file.action = "append"
    /\ ~last.existed
    /\ files[last.fullPath] = <<"new">>

(***************************************************************************)
(* The skip of a descriptor without content (lines 636-646).               *)
(***************************************************************************)
\* the step processes a descriptor without content that got past the
\* security check and the making of its directory
SkipsEmpty ==
    /\ pc = "loop"
    /\ nDesc' = nDesc + 1
    /\ last'.file.content = <<>>
    /\ last'.error \notin {"security", "mkdir"}

\* C21: a descriptor whose content is empty or absent is skipped: it is not
\* counted, not recorded in errors, its target is left unchanged, and no
\* backup is made for it, even when the target exists and backups are on.
C21_Step ==
    SkipsEmpty =>
        /\ filesApplied' = filesApplied
        /\ appliedFilesList' = appliedFilesList
        /\ errors' = errors
        /\ files' = files
        /\ backups' = backups
        /\ BackupOps(last'.ops) = {}

C21_SkipNoBackup == [][C21_Step]_vars

\* what the skip does keep: count, errors and the target
SkippedLeavesTarget ==
    (last.outcome # "none" /\ last.file.content = <<>> /\ ReachedBackupStep) =>
        /\ last.outcome = "skipped"
        /\ WriteOps(last.ops) = {}
        /\ last.existed => files[last.fullPath] = last.before

(***************************************************************************)
(* The backup step is best-effort (lines 571-574, 720-745).                *)
(***************************************************************************)
\* the apply call is in its loop although ensureBackupDirectory could not
\* make the backup directory
EnsureFailed ==
    /\ pc = "loop"
    /\ autoBackup
    /\ OnDisk(Join(projectRoot, backupDir)) \notin dirs

\* C22: a failure inside the backup step (the backup directory cannot be
\* made, the copy fails) does not leave createBackup or
\* ensureBackupDirectory: it adds no entry to errors and the descriptor's
\* write goes ahead without a backup.
C22_BackupBestEffort ==
    /\ (last.outcome # "none" /\ BackupFault) =>
           /\ last.outcome = "applied"
           /\ BackupOps(last.ops) = {}
           /\ Cardinality(WriteOps(last.ops)) = 1
           /\ \A i \in DOMAIN errors : errors[i].error # "backup"
    /\ (EnsureFailed /\ nDesc = 0) =>
           /\ applyResult.kind = "none"
           /\ errors = <<>>

\* the copy of an existing target failed and the target was written all the
\* same, with nothing recorded in errors
C22_Witness ==
    /\ last.fault = "backup-copy"
    /\ last.existed
    /\ last.outcome = "applied"
    /\ files[last.fullPath] # last.before
    /\ errors = <<>>

(***************************************************************************)
(* The adapter started from index.js: main() builds serverConfig from the  *)
(* environment, PostgreSQLMCPServer.run() checks the remote service and    *)
(* attaches the transport, and the IDE client then calls the tools.        *)
(***************************************************************************)
\* what GET /health may come to
HealthReplies == ReachableReplies \cup UnreachableReplies

\* the arguments the IDE client sends
StartupArgs ==
    [projectPath : {NoPath, ProjRoot}, applyToProject : BOOLEAN,
     removeProjectNameFromPath : {"undefined"}, mergeStrategy : {"undefined"}]

\* index.js 10-26: the environment is read, serverConfig built and the
\* server constructed with it
StartupInit ==
    /\ InitFS
    /\ InitFileService
    /\ boot \in [env : AutoBackupEnv, phase : {"main"}, health : {""}]
    /\ fix = NoFix
    /\ mergeCall = NoMerge
    /\ autoBackup = serverConfig(boot.env).autoBackup
    /\ proc = "running"
    /\ call = NoCall("rpc")
    /\ probe = NoProbe
    /\ peer = NoPeer
    /\ remote = NoRemote
    /\ batch = <<>>

\* index.js 27, server.js 110-113: run() sends the health check
Run ==
    /\ proc = "running"
    /\ boot.phase = "main"
    /\ boot' = [boot EXCEPT !.phase = "health"]
    /\ UNCHANGED <<fileServiceVars, proc, call, probe, peer, remote, batch, fix,
                   mergeCall>>

\* server.js 113-123, index.js 29-32: the health check is answered; run()
\* attaches the transport, or rethrows and main() ends the process
HealthResponse(reply) ==
    /\ proc = "running"
    /\ boot.phase = "health"
    /\ IF testConnection(reply).ok
       THEN /\ boot' = [boot EXCEPT !.phase = "listening", !.health = reply]
            /\ proc' = proc
       ELSE /\ boot' = [boot EXCEPT !.phase = "failed", !.health = reply]
            /\ proc' = "exit-1"
    /\ UNCHANGED <<fileServiceVars, call, probe, peer, remote, batch, fix, mergeCall>>

StartupNext ==
    \/ Run
    \/ \E reply \in HealthReplies : HealthResponse(reply)
    \/ \E name \in ToolNames, args \in StartupArgs : CallToolRequest(name, args)
    \/ \E reply \in RemoteReplies, planId \in PlanIds : PlanResponse(reply, planId)
    \/ \E reply \in RemoteReplies, generatedFiles \in BOOLEAN :
          ExecutionResponse(reply, generatedFiles)
    \/ \E ensureOk \in BOOLEAN : ApplyStart(ensureOk)
    \/ ApplyDone
    \/ Sigint

StartupSpec == StartupInit /\ [][StartupNext]_vars

\* the backup directory of the project the process runs in
BackupDirOnDisk == OnDisk(Join(Cwd, backupDir))

\* C23: backups are taken only when the auto-backup flag is on, and the flag
\* follows the environment: with AUTO_BACKUP 'false' the configuration's
\* autoBackup is false and no backup directory or backup file is made; with
\* AUTO_BACKUP 'true' or unset it is true.
C23_FlagFollowsEnv ==
    /\ boot.env = "false" =>
           /\ ~autoBackup
           /\ backups = << >>
           /\ BackupDirOnDisk \notin dirs
    /\ boot.env \in {"true", "undefined"} => autoBackup

\* with the flag off an apply makes no backup directory and no backup file
FlagOffNoBackup ==
    ~autoBackup => (backups = << >> /\ \A d \in dirs : Basename(d) # ".mcp-backups")

(***************************************************************************)
(* The package-path correction on its own (lines 583-615), applied to      *)
(* descriptors of every shape.                                             *)
(***************************************************************************)
BasePackage == <<SL, "com", SL, "example", SL>>

\* what precedes /com/example/, the segment after it, and what follows
Prefixes == { <<"src">>, <<"src", SL, "main", SL, "java">>, <<SL, "src">> }
MiddleParts == {"test_service", "entity", "Shared", "My_App"}
Rests == { <<"User.java">>, <<"entity", SL, "User.java">>, <<"beans.xml">> }

FormedPath(prefix, seg, rest) == prefix \o BasePackage \o <<seg, SL>> \o rest

\* paths without a segment between /com/example/ and the file name, or
\* without '/com/example/' at all
UnformedPaths ==
    { PlainPath,
      <<"src", SL, "com", SL, "example", SL, "User.java">>,
      <<"com", SL, "example", SL, "test_service", SL, "User.java">> }

\* content without, with one and with two references to the package of seg
ContentsFor(seg) ==
    { <<>>, <<"new">>, <<QualifiedRef(seg), "new">>,
      <<QualifiedRef(seg), "new", QualifiedRef(seg)>>,
      <<"com.example.", "new">> }

CorrectInit ==
    /\ InitFS
    /\ InitFileService
    /\ proc = "running"
    /\ call = ApiUse
    /\ probe = NoProbe
    /\ peer = NoPeer
    /\ remote = NoRemote
    /\ batch = <<>>
    /\ boot = NoBoot
    /\ fix = NoFix
    /\ mergeCall = NoMerge

\* lines 583-615 for one descriptor, and once more for its result
Corrected(prefix, seg, rest, file) ==
    LET out == CorrectDescriptor(file, removeProjectNameFromPath)
    IN [done |-> TRUE, remove |-> removeProjectNameFromPath,
        prefix |-> prefix, seg |-> seg, rest |-> rest, file |-> file,
        out |-> out,
        again |-> CorrectDescriptor([file EXCEPT !.path = out.path,
                                                 !.content = out.content],
                                    removeProjectNameFromPath)]

CorrectFormed(prefix, seg, rest, content) ==
    /\ pc = "idle"
    /\ fix' = Corrected(prefix, seg, rest,
                        Desc(FormedPath(prefix, seg, rest), "create", content, ""))
    /\ UNCHANGED <<fileServiceVars, proc, call, probe, peer, remote, batch, boot,
                   mergeCall>>

CorrectUnformed(path, content) ==
    /\ pc = "idle"
    /\ fix' = Corrected(<<>>, "", <<>>, Desc(path, "create", content, ""))
    /\ UNCHANGED <<fileServiceVars, proc, call, probe, peer, remote, batch, boot,
                   mergeCall>>

CorrectNext ==
    \/ \E remove \in BOOLEAN : setRemoveProjectNameFromPath(remove)
    \/ \E prefix \in Prefixes, seg \in MiddleParts, rest \in Rests :
          \E content \in ContentsFor(seg) : CorrectFormed(prefix, seg, rest, content)
    \/ \E path \in UnformedPaths, content \in ContentsFor("test_service") :
          CorrectUnformed(path, content)

CorrectSpec == CorrectInit /\ [][CorrectNext]_vars

\* the descriptor had the form <prefix>/com/example/<seg>/<rest> and <seg>
\* has an underscore or is all lower-case
LooksLikeProjectName == fix.seg # "" /\ (HasUnderscore(fix.seg) \/ IsLowerCase(fix.seg))

\* content with every 'com.example.<seg>.' turned into 'com.example.'
Rewritten(content, seg) ==
    [k \in DOMAIN content |->
        IF content[k] = QualifiedRef(seg) THEN "com.example." ELSE content[k]]

\* what the stated rule gives for the descriptor corrected last
RuleResult ==
    IF LooksLikeProjectName
    THEN [path |-> StripLeadingSlash(fix.prefix) \o BasePackage \o fix.rest,
          content |-> Rewritten(fix.file.content, fix.seg)]
    ELSE [path |-> StripLeadingSlash(fix.file.path), content |-> fix.file.content]

\* C24: with correction enabled, a path <prefix>/com/example/<seg>/<rest>
\* becomes <prefix>/com/example/<rest> exactly when <seg> has an underscore
\* or is all lower-case, and every 'com.example.<seg>.' in the content then
\* becomes 'com.example.'; otherwise path and content stay as they are.
C24_CorrectionRule ==
    (fix.done /\ fix.remove) => fix.out = RuleResult

\* the rule as far as it goes: the path always, the content of .java files
CorrectionRuleJava ==
    (fix.done /\ fix.remove) =>
        /\ fix.out.path = RuleResult.path
        /\ EndsWithJava(fix.file.path) => fix.out.content = RuleResult.content
        /\ ~EndsWithJava(fix.file.path) => fix.out.content = fix.file.content

\* C29: correcting an already corrected path returns it unchanged, so a
\* path without a project-name segment, such as
\* src/main/java/com/example/entity/User.java, keeps its package directory.
C29_CorrectionIdempotent ==
    fix.done => fix.again.path = fix.out.path

(***************************************************************************)
(* mergeFileContent on its own (lines 748-870), called with contents,      *)
(* paths and strategies of every kind.                                     *)
(***************************************************************************)
\* a class with package, import and service marker; the same without the
\* marker; one that does not end with its closing brace; one without a
\* package declaration
JavaExisting ==
    { <<"package p;", NL, "import a;", NL, "@Service", NL, "class S {", NL, "}", NL>>,
      <<"package p;", NL, "import a;", NL, "class S {", NL, "}", NL>>,
      <<"package p;", NL, "@Service", NL, "class S {", NL, "}", NL, "// end">>,
      <<"@RestController", NL, "class S {", NL, "}">> }

\* generated sources: with imports and a method, with neither, with a
\* static import and a method
JavaNew ==
    { <<"package p;", NL, "import a;", NL, "import b;", NL, "class S {", NL,
        "public void m() {}", NL, "}">>,
      <<"class S {", NL, "}">>,
      <<"import static c;", NL, "private int n() {}", NL, "public void m() {}">> }

\* manifests with one dependencies section, with none, and with two
PomExisting ==
    { <<"<project>", NL, "<dependencies>", NL, "<dependency>old</dependency>", NL,
        "</dependencies>", NL, "</project>">>,
      <<"<project>", NL, "</project>">>,
      <<"<project>", "<dependencies>", "<dependency>old</dependency>",
        "</dependencies>", "<dependencies>", "</dependencies>", "</project>">> }

\* generated manifest parts: dependency blocks, none, one inside a section
PomNew ==
    { <<"<dependency>jpa</dependency>", NL, "<dependency>pg</dependency>">>,
      <<"<plugin>x</plugin>">>,
      <<"<dependencies>", "<dependency>jpa</dependency>", "</dependencies>">> }

ExistingContents == {<<>>, <<"old">>} \cup JavaExisting \cup PomExisting
NewContents == {<<"new">>} \cup JavaNew \cup PomNew

\* file names of every extension the switch knows, in both cases, of one it
\* does not know, and without extension
MergePaths ==
    { <<"src", SL, "User.java">>, <<"src", SL, "User.JAVA">>, <<"pom.xml">>,
      <<"src", SL, "beans.xml">>, <<"application.properties">>,
      <<"application.yml">>, <<"application.yaml">>, <<"README.md">>,
      <<"Makefile">> }

\* the strategy argument: a descriptor's mergeStrategy, or 'smart' for none
Strategies == {"smart", "append", "replace", "merge"}

\* the arguments of a call that is about to be made
MergeInit ==
    /\ InitFS
    /\ InitFileService
    /\ proc = "running"
    /\ call = ApiUse
    /\ probe = NoProbe
    /\ peer = NoPeer
    /\ remote = NoRemote
    /\ batch = <<>>
    /\ boot = NoBoot
    /\ fix = NoFix
    /\ mergeCall \in [done : {FALSE}, existingContent : ExistingContents,
                      newContent : NewContents, filePath : MergePaths,
                      strategy : Strategies, out : {<<>>}]

\* lines 748-777
MergeFileContent ==
    /\ ~mergeCall.done
    /\ mergeCall' = [mergeCall EXCEPT
                        !.done = TRUE,
                        !.out = mergeFileContent(mergeCall.existingContent,
                                                 mergeCall.newContent,
                                                 mergeCall.filePath,
                                                 mergeCall.strategy)]
    /\ UNCHANGED <<fileServiceVars, proc, call, probe, peer, remote, batch, boot,
                   fix>>

MergeNext == MergeFileContent

MergeSpec == MergeInit /\ [][MergeNext]_vars

\* the arguments and the result of the merge made last
E == mergeCall.existingContent
N == mergeCall.newContent
Out == mergeCall.out
Ext == Extname(mergeCall.filePath)
Smart == mergeCall.done /\ mergeCall.strategy \notin {"append", "replace"}

HasMarker(content) == \E i \in DOMAIN content : IsMarker(content[i])
HasSection(content) ==
    \E o, c \in DOMAIN content :
        o < c /\ content[o] = "<dependencies>" /\ content[c] = "</dependencies>"
IsManifest == "pom.xml" \in Range(mergeCall.filePath)

\* one of the two format-aware insertions applies
FormatAware ==
    \/ Ext = ".java" /\ HasMarker(E) /\ ClassMatch(E) > 0
    \/ /\ Ext = ".xml" /\ IsManifest
       /\ HasSection(E) /\ \E i \in DOMAIN N : IsDependencyBlock(N[i])

\* C25: replace returns newContent verbatim and append returns
\* existingContent, a separator, newContent, whatever the extension; smart
\* dispatches on the lower-cased extension and gives, for an unknown one,
\* existingContent, a blank line, newContent; unless a format-aware
\* insertion applies, every result but replace's starts with existingContent.
C25_StrategyDispatch ==
    mergeCall.done =>
        /\ mergeCall.strategy = "replace" => Out = N
        /\ mergeCall.strategy = "append" => Out = E \o <<NL>> \o N
        /\ Smart =>
              CASE Ext = ".java" -> Out = mergeJavaFile(E, N)
                [] Ext = ".xml" /\ IsManifest -> Out = mergePomXml(E, N)
                [] Ext = ".xml" /\ ~IsManifest -> Out = mergeXmlFile(E, N)
                [] Ext \in {".properties", ".yml", ".yaml"} ->
                      Out = mergeConfigFile(E, N)
                [] OTHER -> Out = E \o <<NL, NL>> \o N
        /\ (mergeCall.strategy # "replace" /\ ~(Smart /\ FormatAware)) =>
              IsPrefix(E, Out)

\* an append into a source file with a service marker: no smart merge
C25_Witness ==
    /\ mergeCall.done
    /\ mergeCall.strategy = "append"
    /\ Ext = ".java"
    /\ HasMarker(E)
    /\ Out = E \o <<NL>> \o N

(***************************************************************************)
(* The smart merge of a source file (lines 780-839).                       *)
(***************************************************************************)
\* the last token that is not white space is a closing brace
EndsWithBrace(content) ==
    \E k \in DOMAIN content :
        /\ content[k] = "}"
        /\ \A j \in DOMAIN content : j > k => IsWhitespace(content[j])

IsCode(t) ==
    ~IsWhitespace(t) /\ ~IsImportStmt(t) /\ t # "// Added by MCP integration"

\* content without white space, imports and the synthetic comment
Code(content) == SelectSeq(content, IsCode)

\* the imports of existing then new content, each once
UnionOfImports ==
    Unique(SelectSeq(E, IsImportStmt) \o SelectSeq(N, IsImportStmt), <<>>)

HasPackage(content) == \E i \in DOMAIN content : IsPackageDecl(content[i])

\* the merged class: the existing code with the new method blocks right
\* before its final closing brace
MethodsBeforeBrace ==
    Code(Out) = SubSeq(Code(E), 1, Len(Code(E)) - 1)
                \o SelectSeq(N, IsMethodBlock) \o <<"}">>

\* the imports of the result are the union, right after the package declaration
ImportsAfterPackage ==
    /\ SelectSeq(Out, IsImportStmt) = UnionOfImports
    /\ \A p \in DOMAIN Out :
          (IsPackageDecl(Out[p]) /\ UnionOfImports # <<>>) =>
              /\ p + 2 + 2 * Len(UnionOfImports) - 1 <= Len(Out)
              /\ \A i \in 1..Len(UnionOfImports) :
                    Out[p + 2 * i + 1] = UnionOfImports[i]

JavaMerged == mergeCall.done /\ Smart /\ Ext = ".java"

\* C26: when the existing content carries a controller or service marker
\* and ends with a closing brace, the result is the existing class with the
\* new content's method blocks right before that brace and, after the
\* package declaration, the de-duplicated union of the imports of existing
\* then new content, so that every import of the new content is in the
\* result; otherwise the result is the existing content, a separator
\* comment, then the new content.
C26_JavaSmartMerge ==
    JavaMerged =>
        IF HasMarker(E) /\ EndsWithBrace(E)
        THEN /\ MethodsBeforeBrace
             /\ ImportsAfterPackage
             /\ \A i \in DOMAIN N : IsImportStmt(N[i]) => N[i] \in Range(Out)
        ELSE Out = E \o <<NL, NL, "// === Added by MCP Integration ===", NL>> \o N

\* the same for existing classes that have a package declaration
JavaMergeWithPackage ==
    (JavaMerged /\ (HasPackage(E) \/ ~(HasMarker(E) /\ EndsWithBrace(E)))) =>
        IF HasMarker(E) /\ EndsWithBrace(E)
        THEN /\ MethodsBeforeBrace
             /\ ImportsAfterPackage
             /\ \A i \in DOMAIN N : IsImportStmt(N[i]) => N[i] \in Range(Out)
        ELSE Out = E \o <<NL, NL, "// === Added by MCP Integration ===", NL>> \o N

(***************************************************************************)
(* The smart merge of a build manifest (lines 765-769, 841-858).           *)
(***************************************************************************)
IsSolid(t) == ~IsWhitespace(t)

PomMerged == mergeCall.done /\ Smart /\ Ext = ".xml" /\ IsManifest

NewDependencies == SelectSeq(N, IsDependencyBlock)

\* Out is E with the new dependency blocks, and white space only, put in
\* right before position c
InsertedBefore(c) ==
    LET tail == Len(E) - c + 1
    IN /\ Len(Out) >= Len(E)
       /\ SubSeq(Out, 1, c - 1) = SubSeq(E, 1, c - 1)
       /\ SubSeq(Out, Len(Out) - tail + 1, Len(Out)) = SubSeq(E, c, Len(E))
       /\ SelectSeq(SubSeq(Out, c, Len(Out) - tail), IsSolid) = NewDependencies

\* position c closes a dependencies section of E
ClosesSection(c) ==
    /\ E[c] = "</dependencies>"
    /\ \E o \in 1..(c - 1) :
          /\ E[o] = "<dependencies>"
          /\ \A j \in (o + 1)..(c - 1) : E[j] # "</dependencies>"

\* C27: when the new content holds a dependency block and the existing
\* manifest has a dependencies section, every dependency block of the new
\* content is put just before the closing tag of that section, after the
\* dependencies already in it, and the rest of the manifest is unchanged;
\* otherwise the result is the existing content, a comment marker, then the
\* new content.
C27_ManifestMerge ==
    PomMerged =>
        IF NewDependencies # <<>> /\ HasSection(E)
        THEN \E c \in DOMAIN E : ClosesSection(c) /\ InsertedBefore(c)
        ELSE Out = E \o <<NL, NL, "<!-- Added by MCP Integration -->", NL>> \o N

\* two blocks were added to a section that already held one
C27_Witness ==
    /\ PomMerged
    /\ \E i, j, k, c \in DOMAIN Out :
          /\ i < j /\ j < k /\ k < c
          /\ Out[i] = "<dependency>old</dependency>"
          /\ Out[j] = "<dependency>jpa</dependency>"
          /\ Out[k] = "<dependency>pg</dependency>"
          /\ Out[c] = "</dependencies>"

(***************************************************************************)
(* The result of applyGeneratedFiles (lines 636-718), checked under Spec.  *)
(***************************************************************************)
\* the descriptor processed last was recorded in the files list
InFiles == last.counted
\* it was recorded in errors
InErrors == last.outcome = "error"

\* its target holds what it held before, or is still absent
TargetUnchanged ==
    IF last.existed
    THEN last.fullPath \in DOMAIN files /\ files[last.fullPath] = last.before
    ELSE last.fullPath \notin DOMAIN files

\* C28: in every result returned, count is the length of files; each
\* descriptor contributes to at most one of files and errors, so count plus
\* the number of errors never exceeds the number of descriptors; a
\* descriptor contributes to neither only when its content is empty or its
\* action is none of create, modify, append, and then its target's content
\* is unchanged.
C28_ResultConsistent ==
    /\ filesApplied = Len(appliedFilesList)
    /\ filesApplied + Len(errors) <= nDesc
    /\ applyResult.kind = "return" =>
           /\ applyResult.count = Len(applyResult.files)
           /\ applyResult.count + Len(applyResult.errors) <= nDesc
    /\ last.outcome # "none" =>
           /\ ~(InFiles /\ InErrors)
           /\ (~InFiles /\ ~InErrors) =>
                  /\ last.file.content = <<>> \/ last.file.action \notin ValidActions
                  /\ TargetUnchanged

\* a call on two descriptors returned after one was applied and the other
\* went into neither list
C28_Witness ==
    /\ applyResult.kind = "return"
    /\ nDesc = 2
    /\ applyResult.count = 1
    /\ Len(applyResult.files) = 1
    /\ applyResult.errors = <<>>

(***************************************************************************)
(* The order of the start-up, checked under StartupSpec.                   *)
(***************************************************************************)
\* a tool invocation has reached the CallTool handler
Serviced == call.name # ""

\* C30: the server attaches the transport and takes tool invocations only
\* after a health check of the remote service came back with status UP; if
\* the health check fails, for whatever reason, no tool invocation is ever
\* serviced and the process exits with a failure code.
C30_StartupOrdering ==
    /\ (Serviced \/ boot.phase = "listening") => boot.health = "ok"
    /\ Serviced => boot.phase = "listening"
    /\ boot.health \notin {"", "ok"} => boot.phase = "failed"
    /\ boot.phase = "failed" => (proc = "exit-1" /\ ~Serviced)
    /\ proc = "exit-1" => boot.phase = "failed"

\* the health check said UP and an invocation was answered afterwards
C30_Witness ==
    /\ boot.health = "ok"
    /\ Serviced
    /\ call.result # NoResponse

====
